---- MODULE Spec2Model ----
(***************************************************************************)
(* Model of the SSH transfer-and-reconcile pipeline of cPanel_Migration    *)
(* (src/service_ssh.py): TransferReport, the remote command helpers and    *)
(* transfer_directory_ssh with its recovery step handle_missing_files.     *)
(*                                                                         *)
(* A file is a path relative to the account's home directory, written as a *)
(* sequence of segments.  Directories are the proper prefixes of files.    *)
(* Every remote command returns an exit code chosen by the environment:    *)
(* 0, a non-zero status, or -1 (execute_ssh_command's except branch).      *)
(***************************************************************************)
EXTENDS Integers, Sequences, FiniteSets, TLC

\* ---------------------------------------------------------------- bounds
\* number of plain file names "f1".."fN" the hosts may hold under the path
NumNames == 1

\* number of files the target may already hold under the path before the run
MaxPreexisting == 1

\* number of remote commands per run that fail although they could succeed
MaxFailures == 1

\* ------------------------------------------------------------- constants
None == -1

STDERR == "stderr"

HOME == "/home/user"

\* exit codes a remote command can produce: success, a failure status, and
\* the -1 that execute_ssh_command returns when exec_command raises/times out
ExitCodes == {0, 1, -1}

\* ------------------------------------------------------- paths and files
Paths == {<<"a">>, <<"p", "a">>}

PlainNames == {"f" \o ToString(i) : i \in 1..NumNames}

\* a name matched by tar's --exclude-backups (a trailing ~)
BackupName == "f~"

\* relative file paths a host may hold below the transferred path p
RelPaths(p) ==
    {<<n>> : n \in PlainNames} \cup {<<BackupName>>, p \o <<BackupName>>}

IsPrefix(p, f) == Len(f) > Len(p) /\ SubSeq(f, 1, Len(p)) = p

\* files of a host that lie below directory p
Under(fs, p) == {f \in fs : IsPrefix(p, f)}

\* find -printf '%P': the path of f relative to p
RelTo(f, p) == SubSeq(f, Len(p) + 1, Len(f))

RelSet(fs, p) == {RelTo(f, p) : f \in Under(fs, p)}

\* find '<p>' -type f | wc -l
FileCount(fs, p) == Cardinality(Under(fs, p))

\* find '<p>' -type d | wc -l : p itself and every directory below it
DirCount(fs, p) ==
    Cardinality({SubSeq(f, 1, k) : <<f, k>> \in
        {<<g, j>> \in Under(fs, p) \X (1..(2 * Len(p) + 1)) :
            j >= Len(p) /\ j < Len(g)}})

\* du -sb '<p>' | cut -f1 : every file counts one unit
DuSize(fs, p) == Cardinality(Under(fs, p))

Max(a, b) == IF a >= b THEN a ELSE b

\* path.split('/')[:-1] and path.split('/')[-1]
ParentOf(p) == SubSeq(p, 1, Len(p) - 1)

LeafOf(p) == <<p[Len(p)]>>

\* ------------------------------------------------------- TransferReport
TransferReport ==
    [end_time |-> None, success |-> FALSE, total_size_bytes |-> 0,
     transferred_size_bytes |-> 0, file_count |-> 0, directory_count |-> 0,
     errors |-> <<>>]

\* add_error keeping only the newest message
add_error_replacing(r, error_msg) == [r EXCEPT !.errors = <<error_msg>>]

add_error(r, error_msg) == [r EXCEPT !.errors = Append(@, error_msg)]

complete(r, success, t) == [r EXCEPT !.end_time = t, !.success = success]

\* ---------------------------------------------------- counting helpers
\* get_directory_size_ssh giving up on all three numbers when one command fails
get_directory_size_ssh_all_or_nothing(fs, p, ecSize, ecFiles, ecDirs) ==
    IF ecSize = 0 /\ ecFiles = 0 /\ ecDirs = 0
      THEN <<DuSize(fs, p), FileCount(fs, p), DirCount(fs, p)>>
      ELSE <<0, 0, 0>>

\* get_directory_size_ssh: three independent sub-probes, each degrading to 0
get_directory_size_ssh(fs, p, ecSize, ecFiles, ecDirs) ==
    <<IF ecSize = 0 THEN DuSize(fs, p) ELSE 0,
      IF ecFiles = 0 THEN FileCount(fs, p) ELSE 0,
      IF ecDirs = 0 THEN DirCount(fs, p) ELSE 0>>

\* verify_directory_counts: files, and directories without the root
verify_directory_counts(fs, p, ecFiles, ecDirs) ==
    <<IF ecFiles = 0 THEN FileCount(fs, p) ELSE 0,
      Max(0, IF ecDirs = 0 THEN DirCount(fs, p) - 1 ELSE 0)>>

\* ----------------------------------------------------------------- state
VARIABLES
    pc,                 \* position in transfer_directory_ssh
    path,               \* the path argument
    cleanup_temp_files, \* the cleanup_temp_files argument
    srcFiles, tgtFiles, \* files below each host's home
    srcStage, tgtStage, \* what exists of ~/tmp_trans on each host
    primaryMembers,     \* members of the primary archive
    recoveryMembers,    \* members of the recovery archive
    conn,               \* source_ssh / target_ssh
    L,                  \* local variables of the run
    report,             \* the TransferReport
    cmds,               \* remote commands issued so far: <<host, command, ok>>
    now,                \* time.time()
    completeCalls,      \* calls of report.complete so far
    connects,           \* ssh.connect calls made for each host
    aux                 \* the call of a helper function run on its own

vars == <<pc, path, cleanup_temp_files, srcFiles, tgtFiles, srcStage,
          tgtStage, primaryMembers, recoveryMembers, conn, L, report, cmds,
          now, completeCalls, connects, aux>>

hosts == <<srcFiles, tgtFiles, srcStage, tgtStage, primaryMembers,
           recoveryMembers>>

args == <<path, cleanup_temp_files>>

Locals ==
    [total_size |-> 0, file_count |-> 0, dir_count |-> 0,
     source_home |-> "", target_home |-> "",
     source_file_count |-> 0, source_dir_count |-> 0,
     target_file_count |-> 0, target_dir_count |-> 0,
     missing_files |-> 0, new_target_count |-> 0,
     source_file_set |-> {}, missing_file_set |-> {},
     success |-> FALSE, exc |-> "",
     dropped_interrupts |-> 0]

Init ==
    /\ pc = "connect"
    /\ path \in Paths
    /\ cleanup_temp_files \in BOOLEAN
    /\ srcFiles \in SUBSET {path \o r : r \in RelPaths(path)}
    /\ tgtFiles \in {t \in SUBSET {path \o r : r \in RelPaths(path)} :
                        Cardinality(t) <= MaxPreexisting}
    /\ srcStage = {}
    /\ tgtStage = {}
    /\ primaryMembers = {}
    /\ recoveryMembers = {}
    /\ conn = [source_ssh |-> "none", target_ssh |-> "none"]
    /\ L = Locals
    /\ report = TransferReport
    /\ cmds = <<>>
    /\ now = 0
    /\ completeCalls = 0
    /\ connects = [source_ssh |-> 0, target_ssh |-> 0]
    /\ aux = [fn |-> "none"]

\* a remote command was sent to a host and came back with exit code ec
Sent(host, cmd, ec) == <<host, cmd, ec = 0>>

Issue(host, cmd, ec) == cmds' = Append(cmds, Sent(host, cmd, ec))

Tick == now' = now + 1

\* commands that came back with a non-zero exit code so far
Failures == Cardinality({i \in DOMAIN cmds : ~cmds[i][3]})

\* the environment's choice of an exit code: 0 only when the command can
\* succeed on the hosts as they are; a failure when it cannot, or while
\* the run's failure budget lasts
Allowed(ec, possible) ==
    IF ec = 0 THEN possible ELSE ~possible \/ Failures < MaxFailures

\* the same for the commands of one counting helper, which always can succeed
AllowedAll(ecs) ==
    Failures + Cardinality({i \in DOMAIN ecs : ecs[i] # 0}) <= MaxFailures

\* raise Exception(msg) inside the try block
Raise(msg) == /\ pc' = "except"
              /\ L' = [L EXCEPT !.exc = msg]

\* ------------------------------------------------ create_ssh_connection
\* one ssh.connect call; ok is whether it went through: the client is
\* returned, or None after the first exception
create_ssh_connection(ok) ==
    [ssh |-> IF ok THEN "open" ELSE "none", attempts |-> 1]

\* --------------------------------------------- transfer_directory_ssh
\* Connect with the check of the two handles outside the try block: the
\* exception for a missing connection escapes to the caller
ConnectUncaught ==
    /\ pc = "connect"
    /\ \E okS \in BOOLEAN, okT \in BOOLEAN :
        LET s == create_ssh_connection(okS)
            t == create_ssh_connection(okT)
        IN /\ conn' = [source_ssh |-> s.ssh, target_ssh |-> t.ssh]
           /\ connects' = [source_ssh |-> connects.source_ssh + s.attempts,
                           target_ssh |-> connects.target_ssh + t.attempts]
           /\ pc' = IF okS /\ okT THEN "probe" ELSE "raised"
    /\ Tick
    /\ UNCHANGED <<args, aux, hosts, L, report, cmds, completeCalls>>

\* Connect with the check of the source handle alone
ConnectCheckingSourceOnly ==
    /\ pc = "connect"
    /\ \E okS \in BOOLEAN, okT \in BOOLEAN :
        LET s == create_ssh_connection(okS)
            t == create_ssh_connection(okT)
        IN /\ conn' = [source_ssh |-> s.ssh, target_ssh |-> t.ssh]
           /\ connects' = [source_ssh |-> connects.source_ssh + s.attempts,
                           target_ssh |-> connects.target_ssh + t.attempts]
           /\ IF s.ssh # "none"
                THEN pc' = "probe" /\ L' = L
                ELSE Raise("Failed to establish SSH connections")
    /\ Tick
    /\ UNCHANGED <<args, aux, hosts, report, cmds, completeCalls>>

\* create_ssh_connection for both hosts, then the check of both handles
Connect ==
    /\ pc = "connect"
    /\ \E okS \in BOOLEAN, okT \in BOOLEAN :
        LET s == create_ssh_connection(okS)
            t == create_ssh_connection(okT)
        IN /\ conn' = [source_ssh |-> s.ssh, target_ssh |-> t.ssh]
           /\ connects' = [source_ssh |-> connects.source_ssh + s.attempts,
                           target_ssh |-> connects.target_ssh + t.attempts]
           /\ IF s.ssh # "none" /\ t.ssh # "none"
                THEN pc' = "probe" /\ L' = L
                ELSE Raise("Failed to establish SSH connections")
    /\ Tick
    /\ UNCHANGED <<args, aux, hosts, report, cmds, completeCalls>>

\* get_directory_size_ssh(source_ssh, path) and the report's first counts
Probe ==
    /\ pc = "probe"
    /\ \E ecSize \in ExitCodes, ecFiles \in ExitCodes, ecDirs \in ExitCodes :
        LET m == get_directory_size_ssh(srcFiles, path, ecSize, ecFiles, ecDirs)
        IN /\ AllowedAll(<<ecSize, ecFiles, ecDirs>>)
           /\ L' = [L EXCEPT !.total_size = m[1], !.file_count = m[2],
                             !.dir_count = m[3]]
           /\ report' = [report EXCEPT !.total_size_bytes = m[1],
                                       !.file_count = m[2],
                                       !.directory_count = m[3]]
           /\ cmds' = cmds \o <<Sent("source", "du", ecSize),
                                Sent("source", "count_files", ecFiles),
                                Sent("source", "count_dirs", ecDirs)>>
    /\ pc' = "mkdir_src"
    /\ Tick
    /\ UNCHANGED <<args, aux, connects, hosts, conn, completeCalls>>

\* mkdir -p ~/tmp_trans on the source; the exit code is not looked at
MkdirSrc ==
    /\ pc = "mkdir_src"
    /\ \E ec \in ExitCodes :
        /\ Allowed(ec, TRUE)
        /\ srcStage' = IF ec = 0 THEN srcStage \cup {"dir"} ELSE srcStage
        /\ Issue("source", "mkdir_tmp", ec)
    /\ pc' = "pwd_src"
    /\ Tick
    /\ UNCHANGED <<args, aux, connects, srcFiles, tgtFiles, tgtStage, primaryMembers,
                   recoveryMembers, conn, L, report, completeCalls>>

\* pwd on the source; only stdout is used
PwdSrc ==
    /\ pc = "pwd_src"
    /\ \E ec \in ExitCodes :
        /\ Allowed(ec, TRUE)
        /\ L' = [L EXCEPT !.source_home = IF ec = 0 THEN HOME ELSE ""]
        /\ Issue("source", "pwd", ec)
    /\ pc' = "tar"
    /\ Tick
    /\ UNCHANGED <<args, aux, connects, hosts, conn, report, completeCalls>>

\* ArchiveMembers with tar run from the home on the whole path
ArchiveMembersFullPath(fs, p) ==
    {p \o r : r \in {q \in RelSet(fs, p) : q[Len(q)] # BackupName}}

\* members of the archive: cd <parent> && tar czf ... --exclude-backups <leaf>
ArchiveMembers(fs, p) ==
    {LeafOf(p) \o r : r \in {q \in RelSet(fs, p) : q[Len(q)] # BackupName}}

\* Tar with a second try of the command after a non-zero exit
TarRetrying ==
    /\ pc = "tar"
    /\ \E ec \in ExitCodes :
        /\ Allowed(ec, L.source_home = HOME /\ "dir" \in srcStage)
        /\ IF ec = 0
             THEN /\ srcStage' = srcStage \cup {"primary"}
                  /\ primaryMembers' = ArchiveMembers(srcFiles, path)
                  /\ Issue("source", "tar", ec)
                  /\ pc' = "ls"
                  /\ L' = L
             ELSE /\ UNCHANGED <<srcStage, primaryMembers>>
                  /\ Issue("source", "tar", ec)
                  /\ IF \A i \in DOMAIN cmds : cmds[i][2] # "tar"
                       THEN pc' = "tar" /\ L' = L
                       ELSE Raise("Failed to create archive on source: "
                                    \o STDERR)
    /\ Tick
    /\ UNCHANGED <<args, aux, connects, srcFiles, tgtFiles, tgtStage, recoveryMembers, conn,
                   report, completeCalls>>

\* the tar command on the source and the raise on a non-zero exit (after
\* listing the parent directory when the path has several segments)
Tar ==
    /\ pc = "tar"
    /\ \E ec \in ExitCodes :
        /\ Allowed(ec, L.source_home = HOME /\ "dir" \in srcStage)
        /\ IF ec = 0
             THEN /\ srcStage' = srcStage \cup {"primary"}
                  /\ primaryMembers' = ArchiveMembers(srcFiles, path)
                  /\ Issue("source", "tar", ec)
                  /\ pc' = "ls"
                  /\ L' = L
             ELSE /\ UNCHANGED <<srcStage, primaryMembers>>
                  /\ \E ecList \in ExitCodes :
                        /\ ecList # 0 => Failures + 1 < MaxFailures
                        /\ cmds' = cmds \o
                             (IF Len(path) > 1
                                THEN <<Sent("source", "tar", ec),
                                       Sent("source", "ls_parent", ecList)>>
                                ELSE <<Sent("source", "tar", ec)>>)
                  /\ Raise("Failed to create archive on source: " \o STDERR)
    /\ Tick
    /\ UNCHANGED <<args, aux, connects, srcFiles, tgtFiles, tgtStage, recoveryMembers, conn,
                   report, completeCalls>>

\* LsCheck without the raise: the run goes on whatever ls answers
LsCheckIgnoringExit ==
    /\ pc = "ls"
    /\ \E ec \in ExitCodes :
        /\ Allowed(ec, "primary" \in srcStage)
        /\ pc' = "pwd_tgt"
        /\ L' = L
        /\ Issue("source", "ls_archive", ec)
    /\ Tick
    /\ UNCHANGED <<args, aux, connects, hosts, conn, report, completeCalls>>

\* ls -la ~/tmp_trans/<archive>: the archive must exist
LsCheck ==
    /\ pc = "ls"
    /\ \E ec \in ExitCodes :
        /\ Allowed(ec, "primary" \in srcStage)
        /\ IF ec = 0
             THEN pc' = "pwd_tgt" /\ L' = L
             ELSE Raise("Archive was not created successfully")
        /\ Issue("source", "ls_archive", ec)
    /\ Tick
    /\ UNCHANGED <<args, aux, connects, hosts, conn, report, completeCalls>>

\* pwd on the target
PwdTgt ==
    /\ pc = "pwd_tgt"
    /\ \E ec \in ExitCodes :
        /\ Allowed(ec, TRUE)
        /\ L' = [L EXCEPT !.target_home = IF ec = 0 THEN HOME ELSE ""]
        /\ Issue("target", "pwd", ec)
    /\ pc' = "mkdir_tgt"
    /\ Tick
    /\ UNCHANGED <<args, aux, connects, hosts, conn, report, completeCalls>>

\* mkdir -p ~/tmp_trans on the target; the exit code is not looked at
MkdirTgt ==
    /\ pc = "mkdir_tgt"
    /\ \E ec \in ExitCodes :
        /\ Allowed(ec, TRUE)
        /\ tgtStage' = IF ec = 0 THEN tgtStage \cup {"dir"} ELSE tgtStage
        /\ Issue("target", "mkdir_tmp", ec)
    /\ pc' = "wget"
    /\ Tick
    /\ UNCHANGED <<args, aux, connects, srcFiles, tgtFiles, srcStage, primaryMembers,
                   recoveryMembers, conn, L, report, completeCalls>>

\* Wget without the check of the exit code (as for mkdir and pwd)
WgetIgnoringExit ==
    /\ pc = "wget"
    /\ \E ec \in ExitCodes :
        /\ Allowed(ec, "primary" \in srcStage /\ "dir" \in tgtStage)
        /\ tgtStage' = IF ec = 0 THEN tgtStage \cup {"primary"} ELSE tgtStage
        /\ Issue("target", "wget", ec)
    /\ pc' = "mkdir_parent"
    /\ Tick
    /\ UNCHANGED <<args, aux, connects, srcFiles, tgtFiles, srcStage, primaryMembers,
                   recoveryMembers, conn, L, report, completeCalls>>

\* ftp://{SOURCE_USER}:{SOURCE_PASS}@{SOURCE_HOST}:21/tmp_trans/<archive>
source_ftp_url ==
    [user |-> "SOURCE_USER", password |-> "SOURCE_PASS",
     host |-> "SOURCE_HOST", port |-> 21, dir |-> "tmp_trans"]

\* execute_ssh_command_with_progress(target_ssh, wget ...) and its check
Wget ==
    /\ pc = "wget"
    /\ \E ec \in ExitCodes :
        /\ Allowed(ec, "primary" \in srcStage /\ "dir" \in tgtStage)
        /\ IF ec = 0
             THEN /\ tgtStage' = tgtStage \cup {"primary"}
                  /\ pc' = "mkdir_parent"
                  /\ L' = L
             ELSE /\ tgtStage' = tgtStage
                  /\ Raise("Failed to download archive: " \o STDERR)
        /\ Issue("target", "wget", ec)
    /\ Tick
    /\ UNCHANGED <<args, aux, connects, srcFiles, tgtFiles, srcStage, primaryMembers,
                   recoveryMembers, conn, report, completeCalls>>

\* mkdir -p of the destination parent, only for a path of several segments
MkdirParent ==
    /\ pc = "mkdir_parent"
    /\ IF Len(path) > 1
         THEN \E ec \in ExitCodes :
                /\ Allowed(ec, L.target_home = HOME)
                /\ tgtStage' = IF ec = 0 THEN tgtStage \cup {"parent"}
                                         ELSE tgtStage
                /\ Issue("target", "mkdir_parent", ec)
         ELSE UNCHANGED <<tgtStage, cmds>>
    /\ pc' = "extract"
    /\ Tick
    /\ UNCHANGED <<args, aux, connects, srcFiles, tgtFiles, srcStage, primaryMembers,
                   recoveryMembers, conn, L, report, completeCalls>>

\* the directory tar -C changes into exists on the target
ExtractDirExists ==
    /\ L.target_home = HOME
    /\ \/ Len(path) = 1
       \/ "parent" \in tgtStage
       \/ Under(tgtFiles, ParentOf(path)) # {}

\* tar -xvzf ~/tmp_trans/<archive> -C <extract_dir> and its check
Extract ==
    /\ pc = "extract"
    /\ \E ec \in ExitCodes :
        /\ Allowed(ec, "primary" \in tgtStage /\ ExtractDirExists)
        /\ IF ec = 0
             THEN /\ tgtFiles' = tgtFiles \cup
                        {ParentOf(path) \o m : m \in primaryMembers}
                  /\ pc' = "verify_src"
                  /\ L' = L
             ELSE /\ tgtFiles' = tgtFiles
                  /\ Raise("Failed to extract archive: " \o STDERR)
        /\ Issue("target", "extract", ec)
    /\ Tick
    /\ UNCHANGED <<args, aux, connects, srcFiles, srcStage, tgtStage, primaryMembers,
                   recoveryMembers, conn, report, completeCalls>>

\* verify_directory_counts(source_ssh, path)
VerifySrc ==
    /\ pc = "verify_src"
    /\ \E ecFiles \in ExitCodes, ecDirs \in ExitCodes :
        LET c == verify_directory_counts(srcFiles, path, ecFiles, ecDirs)
        IN /\ AllowedAll(<<ecFiles, ecDirs>>)
           /\ L' = [L EXCEPT !.source_file_count = c[1],
                             !.source_dir_count = c[2]]
           /\ cmds' = cmds \o <<Sent("source", "verify_files", ecFiles),
                                Sent("source", "verify_dirs", ecDirs)>>
    /\ pc' = "verify_tgt"
    /\ Tick
    /\ UNCHANGED <<args, aux, connects, hosts, conn, report, completeCalls>>

\* VerifyTgt with the recovery entered on any difference of the two file
\* counts, a surplus included
VerifyTgtOnAnyDifference ==
    /\ pc = "verify_tgt"
    /\ \E ecFiles \in ExitCodes, ecDirs \in ExitCodes :
        LET c == verify_directory_counts(tgtFiles, path, ecFiles, ecDirs)
        IN /\ AllowedAll(<<ecFiles, ecDirs>>)
           /\ L' = [L EXCEPT !.target_file_count = c[1],
                             !.target_dir_count = c[2],
                             !.missing_files =
                                 IF c[1] # L.source_file_count
                                   THEN L.source_file_count - c[1] ELSE @]
           /\ pc' = IF c[1] # L.source_file_count
                      THEN "hmf_list_src" ELSE "update_report"
           /\ cmds' = cmds \o <<Sent("target", "verify_files", ecFiles),
                                Sent("target", "verify_dirs", ecDirs)>>
    /\ Tick
    /\ UNCHANGED <<args, aux, connects, hosts, conn, report, completeCalls>>

\* VerifyTgt with a surplus on the target treated as a failure of the run
VerifyTgtSurplusFatal ==
    /\ pc = "verify_tgt"
    /\ \E ecFiles \in ExitCodes, ecDirs \in ExitCodes :
        LET c == verify_directory_counts(tgtFiles, path, ecFiles, ecDirs)
            M == [L EXCEPT !.target_file_count = c[1],
                           !.target_dir_count = c[2],
                           !.missing_files =
                               IF c[1] < L.source_file_count
                                 THEN L.source_file_count - c[1] ELSE @]
        IN /\ AllowedAll(<<ecFiles, ecDirs>>)
           /\ IF c[1] > L.source_file_count
                THEN /\ pc' = "except"
                     /\ L' = [M EXCEPT !.exc = "Target has more files"]
                ELSE /\ pc' = IF c[1] < L.source_file_count
                                THEN "hmf_list_src" ELSE "update_report"
                     /\ L' = M
           /\ cmds' = cmds \o <<Sent("target", "verify_files", ecFiles),
                                Sent("target", "verify_dirs", ecDirs)>>
    /\ Tick
    /\ UNCHANGED <<args, aux, connects, hosts, conn, report, completeCalls>>

\* verify_directory_counts(target_ssh, path) and the three-way comparison:
\* only a deficit enters handle_missing_files
VerifyTgt ==
    /\ pc = "verify_tgt"
    /\ \E ecFiles \in ExitCodes, ecDirs \in ExitCodes :
        LET c == verify_directory_counts(tgtFiles, path, ecFiles, ecDirs)
        IN /\ AllowedAll(<<ecFiles, ecDirs>>)
           /\ L' = [L EXCEPT !.target_file_count = c[1],
                             !.target_dir_count = c[2],
                             !.missing_files =
                                 IF c[1] < L.source_file_count
                                   THEN L.source_file_count - c[1] ELSE @]
           /\ pc' = IF c[1] < L.source_file_count
                      THEN "hmf_list_src" ELSE "update_report"
           /\ cmds' = cmds \o <<Sent("target", "verify_files", ecFiles),
                                Sent("target", "verify_dirs", ecDirs)>>
    /\ Tick
    /\ UNCHANGED <<args, aux, connects, hosts, conn, report, completeCalls>>

\* ------------------------------------------------- handle_missing_files
\* find '<path>' -type f -printf '%P\n' | sort on the source
HmfListSrc ==
    /\ pc = "hmf_list_src"
    /\ \E ec \in ExitCodes :
        /\ Allowed(ec, TRUE)
        /\ IF ec = 0
             THEN /\ L' = [L EXCEPT !.source_file_set = RelSet(srcFiles, path)]
                  /\ pc' = "hmf_list_tgt"
             ELSE /\ L' = [L EXCEPT !.success = FALSE]
                  /\ pc' = "update_report"
        /\ Issue("source", "list_files", ec)
    /\ Tick
    /\ UNCHANGED <<args, aux, connects, hosts, conn, report, completeCalls>>

\* HmfListTgt taking every listed source file as missing
HmfListTgtWithoutDifference ==
    /\ pc = "hmf_list_tgt"
    /\ \E ec \in ExitCodes :
        /\ Allowed(ec, TRUE)
        /\ IF ec = 0
             THEN LET missing == L.source_file_set
                  IN /\ L' = [L EXCEPT !.missing_file_set = missing,
                                       !.success = FALSE]
                     /\ pc' = IF missing # {} THEN "hmf_write_list"
                                              ELSE "update_report"
             ELSE /\ L' = [L EXCEPT !.success = FALSE]
                  /\ pc' = "update_report"
        /\ Issue("target", "list_files", ec)
    /\ Tick
    /\ UNCHANGED <<args, aux, connects, hosts, conn, report, completeCalls>>

\* the same listing on the target, then the set difference; an empty
\* difference returns False without building anything
HmfListTgt ==
    /\ pc = "hmf_list_tgt"
    /\ \E ec \in ExitCodes :
        /\ Allowed(ec, TRUE)
        /\ IF ec = 0
             THEN LET missing == L.source_file_set \ RelSet(tgtFiles, path)
                  IN /\ L' = [L EXCEPT !.missing_file_set = missing,
                                       !.success = FALSE]
                     /\ pc' = IF missing # {} THEN "hmf_write_list"
                                              ELSE "update_report"
             ELSE /\ L' = [L EXCEPT !.success = FALSE]
                  /\ pc' = "update_report"
        /\ Issue("target", "list_files", ec)
    /\ Tick
    /\ UNCHANGED <<args, aux, connects, hosts, conn, report, completeCalls>>

\* cat > /tmp/missing_files_<ts>.txt on the source; exit code not looked at
HmfWriteList ==
    /\ pc = "hmf_write_list"
    /\ \E ec \in ExitCodes :
        /\ Allowed(ec, TRUE)
        /\ srcStage' = IF ec = 0 THEN srcStage \cup {"list"} ELSE srcStage
        /\ Issue("source", "write_list", ec)
    /\ pc' = "hmf_tar"
    /\ Tick
    /\ UNCHANGED <<args, aux, connects, srcFiles, tgtFiles, tgtStage, primaryMembers,
                   recoveryMembers, conn, L, report, completeCalls>>

\* cd '<path>' && tar czf ~/tmp_trans/recovery_<ts>.tar.gz -T <list>
HmfTar ==
    /\ pc = "hmf_tar"
    /\ \E ec \in ExitCodes :
        /\ Allowed(ec, {"list", "dir"} \subseteq srcStage)
        /\ IF ec = 0
             THEN /\ srcStage' = srcStage \cup {"recovery"}
                  /\ recoveryMembers' = L.missing_file_set
                  /\ pc' = "hmf_wget"
             ELSE /\ UNCHANGED <<srcStage, recoveryMembers>>
                  /\ pc' = "hmf_cleanup_src"
        /\ Issue("source", "recovery_tar", ec)
    /\ Tick
    /\ UNCHANGED <<args, aux, connects, srcFiles, tgtFiles, tgtStage, primaryMembers, conn,
                   L, report, completeCalls>>

\* ftp://{source_user}@{source_host}:21/tmp_trans/<recovery archive>, with
\* SOURCE_USER and SOURCE_HOST passed in by the caller: no password
recovery_ftp_url ==
    [user |-> "SOURCE_USER", password |-> "",
     host |-> "SOURCE_HOST", port |-> 21, dir |-> "tmp_trans"]

\* HmfWget returning False at once when the download fails
HmfWgetReturningAtOnce ==
    /\ pc = "hmf_wget"
    /\ \E ec \in ExitCodes :
        /\ Allowed(ec, "recovery" \in srcStage /\ "dir" \in tgtStage)
        /\ IF ec = 0
             THEN tgtStage' = tgtStage \cup {"recovery"} /\ pc' = "hmf_extract"
             ELSE tgtStage' = tgtStage /\ pc' = "update_report"
        /\ Issue("target", "recovery_wget", ec)
    /\ Tick
    /\ UNCHANGED <<args, aux, connects, srcFiles, tgtFiles, srcStage, primaryMembers,
                   recoveryMembers, conn, L, report, completeCalls>>

\* cd ~/tmp_trans && wget of the recovery archive on the target
HmfWget ==
    /\ pc = "hmf_wget"
    /\ \E ec \in ExitCodes :
        /\ Allowed(ec, "recovery" \in srcStage /\ "dir" \in tgtStage)
        /\ IF ec = 0
             THEN tgtStage' = tgtStage \cup {"recovery"} /\ pc' = "hmf_extract"
             ELSE tgtStage' = tgtStage /\ pc' = "hmf_cleanup_src"
        /\ Issue("target", "recovery_wget", ec)
    /\ Tick
    /\ UNCHANGED <<args, aux, connects, srcFiles, tgtFiles, srcStage, primaryMembers,
                   recoveryMembers, conn, L, report, completeCalls>>

\* where tar -xzf <recovery archive> -C '<target_home>' puts the member r,
\* a path relative to the transferred path p: directly below the home
RecoveryDest(p, r) == r

\* extraction of the recovery archive on the target
HmfExtract ==
    /\ pc = "hmf_extract"
    /\ \E ec \in ExitCodes :
        /\ Allowed(ec, "recovery" \in tgtStage /\ L.target_home = HOME)
        /\ IF ec = 0
             THEN /\ tgtFiles' = tgtFiles \cup
                        {RecoveryDest(path, r) : r \in recoveryMembers}
                  /\ L' = [L EXCEPT !.success = TRUE]
             ELSE UNCHANGED <<tgtFiles, L>>
        /\ Issue("target", "recovery_extract", ec)
    /\ pc' = "hmf_cleanup_src"
    /\ Tick
    /\ UNCHANGED <<args, aux, connects, srcFiles, srcStage, tgtStage, primaryMembers,
                   recoveryMembers, conn, report, completeCalls>>

\* rm [-f] of the recovery archive and the list on the source
HmfCleanupSrc ==
    /\ pc = "hmf_cleanup_src"
    /\ \E ec \in ExitCodes :
        /\ Allowed(ec, TRUE)
        /\ srcStage' = IF ec = 0 THEN srcStage \ {"recovery", "list"}
                                 ELSE srcStage
        /\ Issue("source", "recovery_rm", ec)
    /\ pc' = "hmf_cleanup_tgt"
    /\ Tick
    /\ UNCHANGED <<args, aux, connects, srcFiles, tgtFiles, tgtStage, primaryMembers,
                   recoveryMembers, conn, L, report, completeCalls>>

\* rm [-f] of the recovery archive on the target, then the return: a True
\* result leads to the re-verification, a False one to the error log line
HmfCleanupTgt ==
    /\ pc = "hmf_cleanup_tgt"
    /\ \E ec \in ExitCodes :
        /\ Allowed(ec, TRUE)
        /\ tgtStage' = IF ec = 0 THEN tgtStage \ {"recovery"} ELSE tgtStage
        /\ Issue("target", "recovery_rm", ec)
    /\ pc' = IF L.success THEN "reverify" ELSE "update_report"
    /\ Tick
    /\ UNCHANGED <<args, aux, connects, srcFiles, tgtFiles, srcStage, primaryMembers,
                   recoveryMembers, conn, L, report, completeCalls>>

\* ------------------------------------ transfer_directory_ssh, continued
\* Reverify that runs the recovery again while a deficit is left
ReverifyRetrying ==
    /\ pc = "reverify"
    /\ \E ecFiles \in ExitCodes, ecDirs \in ExitCodes :
        LET c == verify_directory_counts(tgtFiles, path, ecFiles, ecDirs)
        IN /\ AllowedAll(<<ecFiles, ecDirs>>)
           /\ L' = [L EXCEPT !.new_target_count = c[1],
                             !.target_file_count =
                                IF c[1] < L.source_file_count THEN @ ELSE c[1]]
           /\ cmds' = cmds \o <<Sent("target", "reverify_files", ecFiles),
                                Sent("target", "reverify_dirs", ecDirs)>>
           /\ pc' = IF c[1] < L.source_file_count
                      THEN "hmf_list_src" ELSE "update_report"
    /\ Tick
    /\ UNCHANGED <<args, aux, connects, hosts, conn, report, completeCalls>>

\* new_target_count, _ = verify_directory_counts(target_ssh, path); the new
\* count replaces target_file_count only when no deficit is left
Reverify ==
    /\ pc = "reverify"
    /\ \E ecFiles \in ExitCodes, ecDirs \in ExitCodes :
        LET c == verify_directory_counts(tgtFiles, path, ecFiles, ecDirs)
        IN /\ AllowedAll(<<ecFiles, ecDirs>>)
           /\ L' = [L EXCEPT !.new_target_count = c[1],
                             !.target_file_count =
                                IF c[1] < L.source_file_count THEN @ ELSE c[1]]
           /\ cmds' = cmds \o <<Sent("target", "reverify_files", ecFiles),
                                Sent("target", "reverify_dirs", ecDirs)>>
    /\ pc' = "update_report"
    /\ Tick
    /\ UNCHANGED <<args, aux, connects, hosts, conn, report, completeCalls>>

\* report.file_count / report.directory_count from the target-side locals
UpdateReport ==
    /\ pc = "update_report"
    /\ report' = [report EXCEPT !.file_count = L.target_file_count,
                                !.directory_count = L.target_dir_count]
    /\ pc' = IF cleanup_temp_files THEN "cleanup_tgt" ELSE "set_transferred"
    /\ Tick
    /\ UNCHANGED <<args, aux, connects, hosts, conn, L, cmds, completeCalls>>

\* rm ~/tmp_trans/<archive> on the target; exit code not looked at
CleanupTgt ==
    /\ pc = "cleanup_tgt"
    /\ \E ec \in ExitCodes :
        /\ Allowed(ec, TRUE)
        /\ tgtStage' = IF ec = 0 THEN tgtStage \ {"primary"} ELSE tgtStage
        /\ Issue("target", "rm_archive", ec)
    /\ pc' = "cleanup_src"
    /\ Tick
    /\ UNCHANGED <<args, aux, connects, srcFiles, tgtFiles, srcStage, primaryMembers,
                   recoveryMembers, conn, L, report, completeCalls>>

\* CleanupSrc that treats a failed rm like a failed pipeline step
CleanupSrcChecked ==
    /\ pc = "cleanup_src"
    /\ \E ec \in ExitCodes :
        /\ Allowed(ec, TRUE)
        /\ srcStage' = IF ec = 0 THEN srcStage \ {"primary"} ELSE srcStage
        /\ Issue("source", "rm_archive", ec)
        /\ IF ec = 0
             THEN pc' = "set_transferred" /\ L' = L
             ELSE Raise("Failed to remove archive: " \o STDERR)
    /\ Tick
    /\ UNCHANGED <<args, aux, connects, srcFiles, tgtFiles, tgtStage, primaryMembers,
                   recoveryMembers, conn, report, completeCalls>>

\* rm ~/tmp_trans/<archive> on the source; exit code not looked at
CleanupSrc ==
    /\ pc = "cleanup_src"
    /\ \E ec \in ExitCodes :
        /\ Allowed(ec, TRUE)
        /\ srcStage' = IF ec = 0 THEN srcStage \ {"primary"} ELSE srcStage
        /\ Issue("source", "rm_archive", ec)
    /\ pc' = "set_transferred"
    /\ L' = L
    /\ Tick
    /\ UNCHANGED <<args, aux, connects, srcFiles, tgtFiles, tgtStage, primaryMembers,
                   recoveryMembers, conn, report, completeCalls>>

\* report.transferred_size_bytes = total_size
SetTransferred ==
    /\ pc = "set_transferred"
    /\ report' = [report EXCEPT !.transferred_size_bytes = L.total_size]
    /\ pc' = "complete"
    /\ Tick
    /\ UNCHANGED <<args, aux, connects, hosts, conn, L, cmds, completeCalls>>

\* Complete followed by a statement of the try block that raises
CompleteThenRaise ==
    /\ pc = "complete"
    /\ report' = complete(report, TRUE, now)
    /\ completeCalls' = completeCalls + 1
    /\ Raise("division by zero")
    /\ Tick
    /\ UNCHANGED <<args, aux, connects, hosts, conn, cmds>>

\* report.complete(True); nothing after it in the try block raises
Complete ==
    /\ pc = "complete"
    /\ report' = complete(report, TRUE, now)
    /\ completeCalls' = completeCalls + 1
    /\ pc' = "finally"
    /\ Tick
    /\ UNCHANGED <<args, aux, connects, hosts, conn, L, cmds>>

\* ExceptAddError that records nothing
ExceptAddErrorSilent ==
    /\ pc = "except"
    /\ report' = report
    /\ pc' = "except_complete"
    /\ Tick
    /\ UNCHANGED <<args, aux, connects, hosts, conn, L, cmds, completeCalls>>

\* except Exception as e: report.add_error(...)
ExceptAddError ==
    /\ pc = "except"
    /\ report' = add_error(report, "SSH transfer failed: " \o L.exc)
    /\ pc' = "except_complete"
    /\ Tick
    /\ UNCHANGED <<args, aux, connects, hosts, conn, L, cmds, completeCalls>>

\* ... report.complete(False)
ExceptComplete ==
    /\ pc = "except_complete"
    /\ report' = complete(report, FALSE, now)
    /\ completeCalls' = completeCalls + 1
    /\ pc' = "finally"
    /\ Tick
    /\ UNCHANGED <<args, aux, connects, hosts, conn, L, cmds>>

\* Finally closing the connections only when both were opened
FinallyBothOrNone ==
    /\ pc = "finally"
    /\ conn' = [h \in DOMAIN conn |->
                    IF \A g \in DOMAIN conn : conn[g] = "open"
                      THEN "closed" ELSE conn[h]]
    /\ pc' = IF L.exc = "KeyboardInterrupt" THEN "interrupted" ELSE "return"
    /\ Tick
    /\ UNCHANGED <<args, aux, connects, hosts, L, report, cmds, completeCalls>>

\* finally: close every connection that was opened; a KeyboardInterrupt,
\* which no except clause of the function catches, then goes on to the
\* caller
Finally ==
    /\ pc = "finally"
    /\ conn' = [h \in DOMAIN conn |->
                    IF conn[h] = "open" THEN "closed" ELSE conn[h]]
    /\ pc' = IF L.exc = "KeyboardInterrupt" THEN "interrupted" ELSE "return"
    /\ Tick
    /\ UNCHANGED <<args, aux, connects, hosts, L, report, cmds, completeCalls>>

\* return report
Return ==
    /\ pc = "return"
    /\ pc' = "done"
    /\ UNCHANGED <<args, aux, connects, hosts, conn, L, report, cmds, now, completeCalls>>

Next ==
    \/ Connect \/ Probe \/ MkdirSrc \/ PwdSrc \/ Tar \/ LsCheck
    \/ PwdTgt \/ MkdirTgt \/ Wget \/ MkdirParent \/ Extract
    \/ VerifySrc \/ VerifyTgt
    \/ HmfListSrc \/ HmfListTgt \/ HmfWriteList \/ HmfTar \/ HmfWget
    \/ HmfExtract \/ HmfCleanupSrc \/ HmfCleanupTgt
    \/ Reverify \/ UpdateReport \/ CleanupTgt \/ CleanupSrc
    \/ SetTransferred \/ Complete \/ ExceptAddError \/ ExceptComplete
    \/ Finally \/ Return

Spec == Init /\ [][Next]_vars

\* ------------------------------------------- helper functions on their own
\* the state outside the helper call: transfer_directory_ssh is not running
Idle ==
    /\ pc = "idle"
    /\ path = <<>>
    /\ cleanup_temp_files = TRUE
    /\ srcFiles = {} /\ tgtFiles = {}
    /\ srcStage = {} /\ tgtStage = {}
    /\ primaryMembers = {} /\ recoveryMembers = {}
    /\ conn = [source_ssh |-> "none", target_ssh |-> "none"]
    /\ L = Locals
    /\ report = TransferReport
    /\ cmds = <<>>
    /\ now = 0
    /\ completeCalls = 0
    /\ connects = [source_ssh |-> 0, target_ssh |-> 0]

transferVars ==
    <<pc, path, cleanup_temp_files, srcFiles, tgtFiles, srcStage, tgtStage,
      primaryMembers, recoveryMembers, conn, L, report, cmds, now,
      completeCalls, connects>>

\* ------------------------------------------------- an external interrupt
\* KeyboardInterrupt raised between two statements of the try or the
\* except block: `except Exception` does not catch it, the finally block
\* runs next
Interrupt ==
    /\ pc \notin {"finally", "return", "done", "interrupted"}
    /\ L' = [L EXCEPT !.exc = "KeyboardInterrupt"]
    /\ pc' = "finally"
    /\ Tick
    /\ UNCHANGED <<args, aux, connects, hosts, conn, report, cmds, completeCalls>>

\* KeyboardInterrupt raised inside stderr.read or stdout.read of the
\* polling loop: the bare `except: pass` around the read drops it and the
\* loop goes on
InterruptInPoll ==
    /\ pc = "wget"
    /\ L.dropped_interrupts = 0
    /\ L' = [L EXCEPT !.dropped_interrupts = @ + 1]
    /\ Tick
    /\ UNCHANGED <<args, aux, connects, hosts, conn, report, cmds, completeCalls,
                   pc>>

IntNext == Next \/ Interrupt \/ InterruptInPoll

\* runs of transfer_directory_ssh under migrate_ssh.main with interrupts
IntSpec == Init /\ [][IntNext]_vars

\* ------------------------------- two runs of transfer_directory_ssh at once
\* seconds the clock of datetime.now() can advance during the two runs
MaxSeconds == 1

Runs == {1, 2}

\* paths of the two runs: two of them end in the same directory name
RunPaths == {<<"a">>, <<"p", "a">>, <<"b">>}

\* f"{os.path.basename(path)}_{timestamp}.tar.gz", timestamp to the second
archive_name(p, second) == <<LeafOf(p)[1], second, ".tar.gz">>

\* f"recovery_{timestamp}.tar.gz"
recovery_archive(second) == <<"recovery", second, ".tar.gz">>

\* f"/tmp/missing_files_{timestamp}.txt"
file_list_path(second) == <<"/tmp/missing_files", second, ".txt">>

\* a file of name n written by run r replaces what had that name
WriteFile(dir, n, r) == {f \in dir : f[1] # n} \cup {<<n, r>>}

RemoveFile(dir, n) == {f \in dir : f[1] # n}

\* the run whose data the file of name n holds
WriterOf(dir, n) == (CHOOSE f \in dir : f[1] = n)[2]

\* two processes call transfer_directory_ssh against the same two hosts
RunsInit ==
    /\ Idle
    /\ \E p1 \in RunPaths, p2 \in RunPaths :
         aux = [fn |-> "transfer_directory_ssh x 2", clock |-> 0,
                path |-> <<p1, p2>>,
                pc |-> <<"name", "name">>,
                archive |-> <<<<>>, <<>>>>,
                recovery |-> <<<<>>, <<>>>>,
                list |-> <<<<>>, <<>>>>,
                fetched |-> <<0, 0>>,
                src_tmp |-> {}, tgt_tmp |-> {}]

\* a second passes
ClockTick ==
    /\ aux.fn = "transfer_directory_ssh x 2"
    /\ aux.clock < MaxSeconds
    /\ aux' = [aux EXCEPT !.clock = @ + 1]
    /\ UNCHANGED transferVars

\* run r takes the timestamp and names its archive
RunName(r) ==
    /\ aux.pc[r] = "name"
    /\ aux' = [aux EXCEPT
                 !.archive[r] = archive_name(aux.path[r], aux.clock),
                 !.pc[r] = "tar"]
    /\ UNCHANGED transferVars

\* run r: tar czf ~/tmp_trans/<archive> on the source
RunTar(r) ==
    /\ aux.pc[r] = "tar"
    /\ aux' = [aux EXCEPT
                 !.src_tmp = WriteFile(@, aux.archive[r], r),
                 !.pc[r] = "wget"]
    /\ UNCHANGED transferVars

\* run r: wget of ~/tmp_trans/<archive> on the target, when it is there;
\* a recovery may follow
RunWget(r) ==
    /\ aux.pc[r] = "wget"
    /\ \E f \in aux.src_tmp : f[1] = aux.archive[r]
    /\ \E next \in {"recover", "cleanup"} :
         aux' = [aux EXCEPT
                  !.tgt_tmp = WriteFile(@, aux.archive[r],
                                        WriterOf(aux.src_tmp, aux.archive[r])),
                  !.fetched[r] = WriterOf(aux.src_tmp, aux.archive[r]),
                  !.pc[r] = next]
    /\ UNCHANGED transferVars

\* run r: handle_missing_files names the list and the recovery archive by
\* the second and writes both on the source
RunRecover(r) ==
    /\ aux.pc[r] = "recover"
    /\ aux' = [aux EXCEPT
                 !.recovery[r] = recovery_archive(aux.clock),
                 !.list[r] = file_list_path(aux.clock),
                 !.src_tmp = WriteFile(WriteFile(@, file_list_path(aux.clock), r),
                                       recovery_archive(aux.clock), r),
                 !.pc[r] = "recover_rm"]
    /\ UNCHANGED transferVars

\* run r: rm of the recovery archive and the list
RunRecoverRm(r) ==
    /\ aux.pc[r] = "recover_rm"
    /\ aux' = [aux EXCEPT
                 !.src_tmp = RemoveFile(RemoveFile(@, aux.recovery[r]),
                                        aux.list[r]),
                 !.pc[r] = "cleanup"]
    /\ UNCHANGED transferVars

\* run r: rm ~/tmp_trans/<archive> on the target and on the source
RunCleanup(r) ==
    /\ aux.pc[r] = "cleanup"
    /\ aux' = [aux EXCEPT
                 !.tgt_tmp = RemoveFile(@, aux.archive[r]),
                 !.src_tmp = RemoveFile(@, aux.archive[r]),
                 !.pc[r] = "done"]
    /\ UNCHANGED transferVars

RunsNext ==
    \/ ClockTick
    \/ \E r \in Runs : RunName(r)
    \/ \E r \in Runs : RunTar(r)
    \/ \E r \in Runs : RunWget(r)
    \/ \E r \in Runs : RunRecover(r)
    \/ \E r \in Runs : RunRecoverRm(r)
    \/ \E r \in Runs : RunCleanup(r)

RunsSpec == RunsInit /\ [][RunsNext]_vars

\* ------------------------------------- service_ftp.create_ftp_connection
max_retries == 3

retry_delay == 2

\* the port argument: the FTP port, the two SSH ports the function maps to
\* 21, and another port
FtpPorts == {21, 22, 2222, 2121}

\* the call of an attempt that raises, or "" when none does
FtpRaises == {"", "connect", "login", "voidcmd"}

\* create_ftp_connection(host, port, user, password) is called
FtpInit ==
    /\ Idle
    /\ \E port \in FtpPorts :
         aux = [fn |-> "create_ftp_connection", pc |-> "start",
                port |-> port, ftp_port |-> 0, attempt |-> 0,
                connects |-> 0, logins |-> 0, sleeps |-> <<>>, e |-> "",
                result |-> "none"]

\* the FTP port: 21 when the SSH port 22 or 2222 was passed
CreateFtpStart ==
    /\ aux.pc = "start"
    /\ aux' = [aux EXCEPT
                 !.ftp_port = IF aux.port # 22 /\ aux.port # 2222
                                THEN aux.port ELSE 21,
                 !.pc = "try"]
    /\ UNCHANGED transferVars

\* one attempt: FTP(), connect, login, set_pasv, voidcmd, return ftp; any
\* of the calls may raise
CreateFtpTry ==
    /\ aux.pc = "try"
    /\ \E r \in FtpRaises :
         aux' = [aux EXCEPT
                  !.connects = @ + 1,
                  !.logins = IF r = "connect" THEN @ ELSE @ + 1,
                  !.e = r,
                  !.result = IF r = "" THEN "ftp" ELSE @,
                  !.pc = IF r = "" THEN "returned" ELSE "except"]
    /\ UNCHANGED transferVars

\* CreateFtpExcept with the sleep taken after the last attempt as well
CreateFtpExceptSleepingAlways ==
    /\ aux.pc = "except"
    /\ IF aux.attempt < max_retries - 1
         THEN aux' = [aux EXCEPT
                       !.sleeps = Append(@, retry_delay * (2 ^ aux.attempt)),
                       !.attempt = @ + 1,
                       !.e = "",
                       !.pc = "try"]
         ELSE aux' = [aux EXCEPT
                       !.sleeps = Append(@, retry_delay * (2 ^ aux.attempt)),
                       !.pc = "raised"]
    /\ UNCHANGED transferVars

\* except Exception: sleep retry_delay * 2 ** attempt and go round again,
\* or re-raise after the last attempt
CreateFtpExcept ==
    /\ aux.pc = "except"
    /\ IF aux.attempt < max_retries - 1
         THEN aux' = [aux EXCEPT
                       !.sleeps = Append(@, retry_delay * (2 ^ aux.attempt)),
                       !.attempt = @ + 1,
                       !.e = "",
                       !.pc = "try"]
         ELSE aux' = [aux EXCEPT !.pc = "raised"]
    /\ UNCHANGED transferVars

FtpNext == CreateFtpStart \/ CreateFtpTry \/ CreateFtpExcept

FtpSpec == FtpInit /\ [][FtpNext]_vars

\* ------------------------------------------------ TransferReport on its own
\* calls made on one report
MaxCalls == 4

ErrorMessages == {"first error", "second error"}

\* report = TransferReport()
ReportInit ==
    /\ Idle
    /\ aux = [fn |-> "TransferReport", report |-> TransferReport,
              calls |-> <<>>, time |-> 0]

\* report.add_error(msg)
CallAddError ==
    /\ aux.fn = "TransferReport"
    /\ Len(aux.calls) < MaxCalls
    /\ \E msg \in ErrorMessages :
         aux' = [aux EXCEPT !.report = add_error(@, msg),
                            !.calls = Append(@, <<"add_error", msg>>),
                            !.time = @ + 1]
    /\ UNCHANGED transferVars

\* report.complete(success)
CallComplete ==
    /\ aux.fn = "TransferReport"
    /\ Len(aux.calls) < MaxCalls
    /\ \E success \in BOOLEAN :
         aux' = [aux EXCEPT !.report = complete(@, success, aux.time),
                            !.calls = Append(@, <<"complete", success>>),
                            !.time = @ + 1]
    /\ UNCHANGED transferVars

ReportNext == CallAddError \/ CallComplete

ReportSpec == ReportInit /\ [][ReportNext]_vars

\* ----------- service_ftp.download_ftp_file_with_retry, upload_ftp_file_with_retry
\* the largest max_retries argument
MaxRetriesArg == 3

RetryFunctions ==
    {"download_ftp_file_with_retry", "upload_ftp_file_with_retry"}

\* what ftp.size answers for the remote file: its size in bytes, or 0 when
\* the server gives none
FileSizes == {0, 12}

\* the size of the local file after retrbinary
DownloadedSizes == {12, 8}

\* the two sizes an attempt sees; the upload looks at none
SizeChoices(fn) ==
    IF fn = "download_ftp_file_with_retry"
      THEN FileSizes \X DownloadedSizes
      ELSE {<<0, 0>>}

\* AttemptOutcome without the comparison of the two sizes
AttemptOutcomeIgnoringSize(fn, raises, file_size, downloaded_size) ==
    IF raises THEN "raise" ELSE "ok"

\* how one attempt ends: the transfer and the check go through, a call
\* raises, or (download only) the local file has another size than the
\* remote one
AttemptOutcome(fn, raises, file_size, downloaded_size) ==
    CASE raises -> "raise"
      [] ~raises /\ fn = "upload_ftp_file_with_retry" -> "ok"
      [] ~raises /\ fn = "download_ftp_file_with_retry" ->
            IF file_size = 0 \/ downloaded_size = file_size
              THEN "ok" ELSE "mismatch"

\* one of the two functions is called with max_retries = n
RetryInit ==
    /\ Idle
    /\ \E fn \in RetryFunctions, n \in 0..MaxRetriesArg :
         aux = [fn |-> fn, max_retries |-> n, pc |-> "for", attempt |-> 0,
                file_size |-> 0, downloaded_size |-> 0,
                outcomes |-> <<>>, sleeps |-> <<>>, result |-> "none"]

\* for attempt in range(max_retries): the body of the try block
TransferAttempt ==
    /\ aux.fn \in RetryFunctions
    /\ aux.pc = "for"
    /\ aux.attempt < aux.max_retries
    /\ \E raises \in BOOLEAN, sizes \in SizeChoices(aux.fn) :
         LET o == AttemptOutcome(aux.fn, raises, sizes[1], sizes[2])
         IN aux' = [aux EXCEPT
                     !.file_size = sizes[1],
                     !.downloaded_size = IF raises THEN @ ELSE sizes[2],
                     !.outcomes = Append(@, o),
                     !.result = IF o = "ok" THEN "True" ELSE @,
                     !.attempt = IF o = "mismatch" THEN @ + 1 ELSE @,
                     !.pc = CASE o = "ok" -> "returned"
                              [] o = "raise" -> "except"
                              [] o = "mismatch" -> "for"]
    /\ UNCHANGED transferVars

\* TransferExcept letting the exception of the last attempt out
TransferExceptReraising ==
    /\ aux.fn \in RetryFunctions
    /\ aux.pc = "except"
    /\ IF aux.attempt < aux.max_retries - 1
         THEN aux' = [aux EXCEPT
                       !.sleeps = Append(@, retry_delay * (2 ^ aux.attempt)),
                       !.attempt = @ + 1,
                       !.pc = "for"]
         ELSE aux' = [aux EXCEPT !.pc = "raised"]
    /\ UNCHANGED transferVars

\* except Exception: sleep retry_delay * 2 ** attempt and go round again,
\* or return False after the last attempt
TransferExcept ==
    /\ aux.fn \in RetryFunctions
    /\ aux.pc = "except"
    /\ IF aux.attempt < aux.max_retries - 1
         THEN aux' = [aux EXCEPT
                       !.sleeps = Append(@, retry_delay * (2 ^ aux.attempt)),
                       !.attempt = @ + 1,
                       !.pc = "for"]
         ELSE aux' = [aux EXCEPT !.result = "False", !.pc = "returned"]
    /\ UNCHANGED transferVars

\* the loop is over: return False
TransferLoopEnd ==
    /\ aux.fn \in RetryFunctions
    /\ aux.pc = "for"
    /\ aux.attempt >= aux.max_retries
    /\ aux' = [aux EXCEPT !.result = "False", !.pc = "returned"]
    /\ UNCHANGED transferVars

RetryNext == TransferAttempt \/ TransferExcept \/ TransferLoopEnd

RetrySpec == RetryInit /\ [][RetryNext]_vars

\* --------------------------------------- service_ssh.execute_ssh_command
\* exit statuses a remote command ends with
ExitStatuses == {0, 1, 2, 127}

\* a byte sequence that is not valid UTF-8
BadBytes == "0xff"

\* what a remote command writes to one of its streams, as pieces of bytes
RemoteOutputs == {<<>>, <<"text">>, <<"te", BadBytes, "xt">>}

\* texts of the exceptions paramiko and the socket raise; a socket timeout
\* has the empty text
ExceptionTexts == {<<>>, <<"SSH session not active">>}

IsValid(b) == b # BadBytes

\* bytes.decode('utf-8', errors='ignore'): the invalid pieces are dropped
Decode(bs) == SelectSeq(bs, IsValid)

\* execute_ssh_command(ssh, command) is called; the command will end with
\* exit status status and the output out and err, unless a call raises
ExecInit ==
    /\ Idle
    /\ \E status \in ExitStatuses, out \in RemoteOutputs,
          err \in RemoteOutputs :
         aux = [fn |-> "execute_ssh_command", pc |-> "exec_command",
                status |-> status, out |-> out, err |-> err,
                exit_code |-> None, stdout_data |-> <<>>,
                stderr_data |-> <<>>, raised |-> FALSE, e |-> <<>>,
                result |-> <<>>]

\* one of the calls inside the try block raises an exception with text e
ExecRaise(e) == aux' = [aux EXCEPT !.raised = TRUE, !.e = e, !.pc = "except"]

\* ssh.exec_command(command, timeout=timeout)
ExecCommand ==
    /\ aux.pc = "exec_command"
    /\ \/ aux' = [aux EXCEPT !.pc = "recv_exit_status"]
       \/ \E e \in ExceptionTexts : ExecRaise(e)
    /\ UNCHANGED transferVars

\* exit_code = stdout.channel.recv_exit_status()
RecvExitStatus ==
    /\ aux.pc = "recv_exit_status"
    /\ \/ aux' = [aux EXCEPT !.exit_code = aux.status, !.pc = "read"]
       \/ \E e \in ExceptionTexts : ExecRaise(e)
    /\ UNCHANGED transferVars

\* stdout.read().decode(...), stderr.read().decode(...)
ReadOutput ==
    /\ aux.pc = "read"
    /\ \/ aux' = [aux EXCEPT !.stdout_data = Decode(aux.out),
                             !.stderr_data = Decode(aux.err),
                             !.pc = "return"]
       \/ \E e \in ExceptionTexts : ExecRaise(e)
    /\ UNCHANGED transferVars

\* return exit_code, stdout_data, stderr_data
ExecReturn ==
    /\ aux.pc = "return"
    /\ aux' = [aux EXCEPT
                 !.result = <<aux.exit_code, aux.stdout_data, aux.stderr_data>>,
                 !.pc = "returned"]
    /\ UNCHANGED transferVars

\* ExecExcept letting the exception go on to the caller
ExecExceptReraising ==
    /\ aux.pc = "except"
    /\ aux' = [aux EXCEPT !.pc = "raised"]
    /\ UNCHANGED transferVars

\* except Exception as e: return -1, "", str(e)
ExecExcept ==
    /\ aux.pc = "except"
    /\ aux' = [aux EXCEPT !.result = <<-1, <<>>, aux.e>>, !.pc = "returned"]
    /\ UNCHANGED transferVars

ExecNext ==
    ExecCommand \/ RecvExitStatus \/ ReadOutput \/ ExecReturn \/ ExecExcept

ExecSpec == ExecInit /\ [][ExecNext]_vars

\* --------------------------- service_ssh.execute_ssh_command_with_progress
\* lines the tool writes to stderr before it ends
MaxLines == 2

\* iterations of the polling loop before the command is seen to have ended
MaxPolls == 3

\* time is counted in tenths of a second: the logging interval of 5 s
LogInterval == 50

\* time.sleep(0.1) at the end of an iteration
PollSleep == 1

\* time an iteration spends before it looks at what it read
ReadDelays == {0, 49, 50}

\* a line of stderr is a sequence of its pieces; the pieces that stand for
\* each part of wget's progress line
PercentTokens == {"45", "2"}

BarTokens == {"===>", ">"}

SizeTokens == {"12.3M", "1.2M"}

RateTokens == {"892KB/s"}

EtaTokens == {"15s", "2m"}

\* 'archive.tar.gz    45%[===========>        ] 12.3M  892KB/s   eta 15s'
ExampleLine ==
    <<"archive.tar.gz", "45", "%", "[", "===>", "]", "12.3M", "892KB/s",
      "eta", "15s">>

\* the progress line of a download that has just begun: no '=' in the bar
EarlyLine ==
    <<"archive.tar.gz", "2", "%", "[", ">", "]", "1.2M", "892KB/s",
      "eta", "2m">>

\* a progress line without the eta part
NoEtaLine ==
    <<"archive.tar.gz", "45", "%", "[", "===>", "]", "12.3M", "892KB/s">>

\* a diagnostic line of the tool
DiagLine == <<"Login", "incorrect.">>

StderrLines == {ExampleLine, EarlyLine, NoEtaLine, DiagLine}

StderrOutputs == UNION {[1..n -> StderrLines] : n \in 0..MaxLines}

\* '%' in line
HasPercent(line) == \E i \in DOMAIN line : line[i] = "%"

\* '=' in line
HasEquals(line) == \E i \in DOMAIN line : line[i] = "===>"

\* 'ETA' in line, in capitals
HasETA(line) == \E i \in DOMAIN line : line[i] = "ETA"

\* where re.search finds (\d+)%\[([=>\s]*)\]\s+(size)\s+(rate B/s)
MatchAt(line) ==
    {i \in DOMAIN line :
        /\ i + 6 <= Len(line)
        /\ line[i] \in PercentTokens
        /\ line[i + 1] = "%"
        /\ line[i + 2] = "["
        /\ line[i + 3] \in BarTokens
        /\ line[i + 4] = "]"
        /\ line[i + 5] \in SizeTokens
        /\ line[i + 6] \in RateTokens}

\* group 5 of the match, (eta\s+[0-9hms\s]*)?, stripped, or its default
EtaGroup(line, i) ==
    IF /\ i + 8 <= Len(line)
       /\ line[i + 7] \in {"eta", "ETA"}
       /\ line[i + 8] \in EtaTokens
      THEN <<line[i + 7], line[i + 8]>>
      ELSE <<"calculating...">>

NoSample == [percent |-> "", size |-> "", speed |-> "", eta |-> <<>>]

\* the pre-test of a line and the regular expression: percent, size,
\* speed and eta of the progress line, or NoSample
parse_progress(line) ==
    IF HasPercent(line) /\ (HasEquals(line) \/ HasETA(line))
         /\ MatchAt(line) # {}
      THEN LET i == CHOOSE k \in MatchAt(line) :
                        \A m \in MatchAt(line) : k <= m
           IN [percent |-> line[i], size |-> line[i + 5],
               speed |-> line[i + 6], eta |-> EtaGroup(line, i)]
      ELSE NoSample

\* handle_line with every sample written to the log
handle_line_logging_all(st, line, t) ==
    LET s == parse_progress(line)
    IN IF s = NoSample THEN st
       ELSE [st EXCEPT !.rendered = Append(@, s),
                       !.logged = Append(@, <<t, s>>),
                       !.last_progress_time = t]

\* one line of a chunk at time t: print the sample, and log it when 5 s
\* have passed since last_progress_time
handle_line(st, line, t) ==
    LET s == parse_progress(line)
    IN IF s = NoSample THEN st
       ELSE IF t - st.last_progress_time >= LogInterval
              THEN [st EXCEPT !.rendered = Append(@, s),
                              !.logged = Append(@, <<t, s>>),
                              !.last_progress_time = t]
              ELSE [st EXCEPT !.rendered = Append(@, s)]

RECURSIVE handle_chunk(_, _, _)
\* for line in chunk.split('\n')
handle_chunk(st, chunk, t) ==
    IF chunk = <<>> THEN st
    ELSE handle_chunk(handle_line(st, Head(chunk), t), Tail(chunk), t)

\* the bytes of a character of two bytes in UTF-8, and an ASCII byte
LeadByte == "0xc3"

ContByte == "0xa9"

AsciiByte == "a"

\* what the command writes to stdout, as bytes
StdoutOutputs == {<<>>, <<LeadByte, ContByte>>, <<AsciiByte>>}

\* bytes.decode('utf-8', errors='ignore') of one chunk of bytes: a lead
\* byte with its continuation byte is one character, a lead byte without
\* it and a continuation byte on its own are dropped
RECURSIVE DecodeUtf8(_)
DecodeUtf8(bs) ==
    IF bs = <<>> THEN <<>>
    ELSE IF Head(bs) = LeadByte
      THEN IF Len(bs) >= 2 /\ bs[2] = ContByte
             THEN <<"e-acute">> \o DecodeUtf8(SubSeq(bs, 3, Len(bs)))
             ELSE DecodeUtf8(Tail(bs))
    ELSE IF Head(bs) = ContByte THEN DecodeUtf8(Tail(bs))
    ELSE <<Head(bs)>> \o DecodeUtf8(Tail(bs))

\* the lines kept for the warning: not blank, no '%' and no '='
error_lines(data) ==
    SelectSeq(data, LAMBDA line :
                      line # <<>> /\ ~HasPercent(line) /\ ~HasEquals(line))

\* execute_ssh_command_with_progress(target_ssh, wget_cmd) is called; the
\* tool will write the lines of pending to stderr and end with status
ProgInit ==
    /\ Idle
    /\ \E err \in StderrOutputs, out \in StdoutOutputs, status \in {0, 1} :
         aux = [fn |-> "execute_ssh_command_with_progress",
                pc |-> "exec_command", status |-> status,
                err |-> err, pending |-> err,
                out |-> out, stdout_pending |-> out, stdout_data |-> <<>>,
                polled |-> <<>>, stderr_data |-> <<>>, now |-> 0,
                last_progress_time |-> 0, polls |-> 0, rendered |-> <<>>,
                logged |-> <<>>, warning |-> <<>>, raised |-> FALSE,
                result |-> <<>>, error |-> <<>>]

\* ssh.exec_command and the two settimeout calls, or the exception of one
ProgExecCommand ==
    /\ aux.pc = "exec_command"
    /\ \/ aux' = [aux EXCEPT !.last_progress_time = aux.now, !.pc = "poll"]
       \/ \E e \in ExceptionTexts :
            aux' = [aux EXCEPT !.raised = TRUE,
                               !.result = <<-1, <<>>, <<e>>>>,
                               !.pc = "returned"]
    /\ UNCHANGED transferVars

\* one iteration of the polling loop: read what stderr has (nothing when
\* the read times out), handle its lines, read what stdout has and decode
\* that chunk, sleep
Poll ==
    /\ aux.pc = "poll"
    /\ aux.polls < MaxPolls
    /\ \E n \in 0..Len(aux.pending), m \in 0..Len(aux.stdout_pending),
          d \in ReadDelays :
         LET chunk == SubSeq(aux.pending, 1, n)
             bytes == SubSeq(aux.stdout_pending, 1, m)
             t == aux.now + d
             st == handle_chunk(aux, chunk, t)
         IN aux' = [st EXCEPT
                     !.pending = SubSeq(aux.pending, n + 1, Len(aux.pending)),
                     !.polled = @ \o chunk,
                     !.stderr_data = @ \o chunk,
                     !.stdout_pending =
                         SubSeq(aux.stdout_pending, m + 1,
                                Len(aux.stdout_pending)),
                     !.stdout_data = @ \o DecodeUtf8(bytes),
                     !.now = t + PollSleep,
                     !.polls = @ + 1]
    /\ UNCHANGED transferVars

\* exit_status_ready(): the loop ends, the rest of stdout and of stderr
\* is read and decoded, the exit code is taken, a failure is logged with
\* the filtered lines, and the triple is returned
ProgFinish ==
    /\ aux.pc = "poll"
    /\ LET data == aux.stderr_data \o aux.pending
           text == aux.stdout_data \o DecodeUtf8(aux.stdout_pending)
       IN aux' = [aux EXCEPT
                   !.pending = <<>>,
                   !.stderr_data = data,
                   !.stdout_pending = <<>>,
                   !.stdout_data = text,
                   !.warning = IF aux.status # 0 THEN error_lines(data)
                                                ELSE <<>>,
                   !.result = <<aux.status, text, data>>,
                   !.pc = "returned"]
    /\ UNCHANGED transferVars

\* the caller: if exit_code != 0: raise Exception("Failed to download
\* archive: " + stderr), which the except block puts in report.errors
WgetCheck ==
    /\ aux.pc = "returned"
    /\ IF aux.result[1] # 0
         THEN aux' = [aux EXCEPT
                       !.error = <<<<"SSH transfer failed:",
                                     "Failed to download archive:">>>>
                                   \o aux.result[3],
                       !.pc = "failed"]
         ELSE aux' = [aux EXCEPT !.pc = "downloaded"]
    /\ UNCHANGED transferVars

ProgNext == ProgExecCommand \/ Poll \/ ProgFinish \/ WgetCheck

ProgSpec == ProgInit /\ [][ProgNext]_vars

\* ------------------------------------- the archive name in the commands
\* characters of the last segment of a path
MaxNameLen == 3

\* a letter, a blank, a backslash and a tab
NameChars == {"a", " ", "\\", "\t"}

\* characters that are whitespace
Whitespace == {" ", "\t"}

\* last segments of a path: the directory names of at most MaxNameLen
\* characters
Basenames == UNION {[1..n -> NameChars] : n \in 1..MaxNameLen}

\* "_" + strftime("%Y%m%d_%H%M%S") + ".tar.gz", as one piece
TimestampSuffix == "_20250101_120000.tar.gz"

\* archive_name.replace(' ', '_').replace('\\', '_')
safe_archive_name(name) ==
    [i \in DOMAIN name |-> IF name[i] = " " \/ name[i] = "\\" THEN "_"
                                                              ELSE name[i]]

\* the commands that carry the archive name, in the order of the run
NameCommands ==
    <<"tar", "ls_archive", "wget", "extract", "rm_target", "rm_source">>

\* transfer_directory_ssh has named the archive of a path whose last
\* segment is base
NameInit ==
    /\ Idle
    /\ \E base \in Basenames :
         aux = [fn |-> "safe_archive_name", base |-> base,
                archive_name |-> Append(base, TimestampSuffix),
                used |-> <<>>]

\* the next command of the run is built: each of them takes the file name
\* from archive_name again with the two replacements
NameCommand ==
    /\ aux.fn = "safe_archive_name"
    /\ Len(aux.used) < Len(NameCommands)
    /\ aux' = [aux EXCEPT
                 !.used = Append(@, <<NameCommands[Len(@) + 1],
                                      safe_archive_name(aux.archive_name)>>)]
    /\ UNCHANGED transferVars

NameNext == NameCommand

NameSpec == NameInit /\ [][NameNext]_vars

\* ------------------------------------ service_ftp.transfer_in_chunks_ftp
\* the largest size of a local file, in bytes
MaxFileSize == 2

\* the files os.walk can find below local_path, by relative path
LocalFiles == {"f1", "f2", "d/f3"}

LocalFileSizes == 0..MaxFileSize

\* values of the max_chunk_size argument
MaxChunkSizes == {-1, 0, 1, 3}

\* the orders in which os.walk can come across the files of the set fs
WalkOrders(fs) ==
    {o \in [1..Cardinality(fs) -> fs] :
        \A i, j \in DOMAIN o : i # j => o[i] # o[j]}

\* one more element in a list sorted by size with the largest first: it
\* goes behind the elements that are not smaller, as the stable sort
\* with reverse=True leaves it
InsertBySize(sorted, x) ==
    LET k == Cardinality({i \in DOMAIN sorted : sorted[i][2] >= x[2]})
    IN SubSeq(sorted, 1, k) \o <<x>> \o SubSeq(sorted, k + 1, Len(sorted))

\* all_files.sort(key=lambda x: x[2], reverse=True), on pairs of a
\* relative path and a size
RECURSIVE SortBySizeDesc(_)
SortBySizeDesc(s) ==
    IF s = <<>> THEN <<>>
    ELSE InsertBySize(SortBySizeDesc(SubSeq(s, 1, Len(s) - 1)), s[Len(s)])

\* transfer_in_chunks_ftp(local_path, ...) is called on a directory with
\* the files of local, each with its size
ChunkInit ==
    /\ Idle
    /\ \E fs \in SUBSET LocalFiles, max \in MaxChunkSizes :
         \E local \in [fs -> LocalFileSizes] :
           aux = [fn |-> "transfer_in_chunks_ftp", pc |-> "walk",
                  local |-> local, max_chunk_size |-> max,
                  all_files |-> <<>>, todo |-> <<>>, chunks |-> <<>>,
                  current_chunk |-> <<>>, current_chunk_size |-> 0,
                  chunk_num |-> 0, uploaded |-> <<>>, result |-> "none"]

\* os.walk collects the files with their sizes, then the list is sorted
ChunkWalk ==
    /\ aux.fn = "transfer_in_chunks_ftp"
    /\ aux.pc = "walk"
    /\ \E o \in WalkOrders(DOMAIN aux.local) :
         LET found == [i \in DOMAIN o |-> <<o[i], aux.local[o[i]]>>]
         IN aux' = [aux EXCEPT !.all_files = SortBySizeDesc(found),
                               !.todo = SortBySizeDesc(found),
                               !.pc = "for"]
    /\ UNCHANGED transferVars

\* ChunkFor starting a new chunk whenever the file does not fit, the
\* current chunk being empty or not
ChunkForFlushingEmpty ==
    /\ aux.fn = "transfer_in_chunks_ftp"
    /\ aux.pc = "for"
    /\ aux.todo # <<>>
    /\ LET file == Head(aux.todo)
           flush == aux.current_chunk_size + file[2] > aux.max_chunk_size
       IN aux' = [aux EXCEPT
                   !.chunks = IF flush
                                THEN Append(@, <<aux.chunk_num,
                                                 aux.current_chunk>>)
                                ELSE @,
                   !.chunk_num = IF flush THEN @ + 1 ELSE @,
                   !.current_chunk = IF flush THEN <<file[1]>>
                                              ELSE Append(@, file[1]),
                   !.current_chunk_size = IF flush THEN file[2]
                                                   ELSE @ + file[2],
                   !.todo = Tail(@)]
    /\ UNCHANGED transferVars

\* one iteration of the loop over all_files: a file that does not fit in
\* the current chunk closes it, unless the chunk is empty; then the file
\* goes in the current chunk
ChunkFor ==
    /\ aux.fn = "transfer_in_chunks_ftp"
    /\ aux.pc = "for"
    /\ aux.todo # <<>>
    /\ LET file == Head(aux.todo)
           flush == /\ aux.current_chunk_size + file[2] > aux.max_chunk_size
                    /\ aux.current_chunk # <<>>
       IN aux' = [aux EXCEPT
                   !.chunks = IF flush
                                THEN Append(@, <<aux.chunk_num,
                                                 aux.current_chunk>>)
                                ELSE @,
                   !.chunk_num = IF flush THEN @ + 1 ELSE @,
                   !.current_chunk = IF flush THEN <<file[1]>>
                                              ELSE Append(@, file[1]),
                   !.current_chunk_size = IF flush THEN file[2]
                                                   ELSE @ + file[2],
                   !.todo = Tail(@)]
    /\ UNCHANGED transferVars

\* after the loop: the last chunk is added if it is not empty
ChunkLast ==
    /\ aux.fn = "transfer_in_chunks_ftp"
    /\ aux.pc = "for"
    /\ aux.todo = <<>>
    /\ aux' = [aux EXCEPT
                 !.chunks = IF aux.current_chunk # <<>>
                              THEN Append(@, <<aux.chunk_num,
                                               aux.current_chunk>>)
                              ELSE @,
                 !.pc = "process"]
    /\ UNCHANGED transferVars

\* the next chunk is copied, compressed and uploaded as chunk_<n>.tar.gz,
\* or one of these calls raises and the function returns False; after the
\* last chunk it returns True
ChunkProcess ==
    /\ aux.fn = "transfer_in_chunks_ftp"
    /\ aux.pc = "process"
    /\ IF Len(aux.uploaded) < Len(aux.chunks)
         THEN \/ aux' = [aux EXCEPT
                          !.uploaded =
                              Append(@, aux.chunks[Len(@) + 1][1])]
              \/ aux' = [aux EXCEPT !.result = "False", !.pc = "returned"]
         ELSE aux' = [aux EXCEPT !.result = "True", !.pc = "returned"]
    /\ UNCHANGED transferVars

ChunkNext == ChunkWalk \/ ChunkFor \/ ChunkLast \/ ChunkProcess

ChunkSpec == ChunkInit /\ [][ChunkNext]_vars

\* ------------------------------------------------------------ vocabulary
Done == pc = "done"

Issued(host, cmd) ==
    \E i \in DOMAIN cmds : cmds[i][1] = host /\ cmds[i][2] = cmd

Failed(host, cmd) == \E i \in DOMAIN cmds : cmds[i] = <<host, cmd, FALSE>>

Succeeded(host, cmd) == \E i \in DOMAIN cmds : cmds[i] = <<host, cmd, TRUE>>

Times(host, cmd) ==
    Cardinality({i \in DOMAIN cmds : cmds[i][1] = host /\ cmds[i][2] = cmd})

\* handle_missing_files was called
RecoveryEntered == Issued("source", "list_files")

\* the deficit the run itself measured last: after a recovery that returned
\* True the re-verification's count, otherwise the verification's count
ResidualMissing ==
    IF L.success THEN L.source_file_count - L.new_target_count
                 ELSE L.source_file_count - L.target_file_count

\* the text the code logs for a residual deficit
StillMissingMsg(n) ==
    "Still missing " \o ToString(n) \o " files after recovery attempt"

HasError(msg) == \E i \in DOMAIN report.errors : report.errors[i] = msg

\* ---------------------------------------------------------------- claims
\* C1: a deficit that is still there after the one recovery pass (recovery
\* failed, or the re-verification still counts fewer target than source
\* files) makes the returned report success = false with an error entry
\* that gives the residual missing count.
C1_ResidualDeficitFailsRun ==
    (Done /\ RecoveryEntered /\ ResidualMissing > 0)
        => /\ report.success = FALSE
           /\ HasError(StillMissingMsg(ResidualMissing))

\* C2: when verification found exactly N files missing and the recovery
\* archive was built, retrieved and extracted (no command of the run
\* failed), the target holds exactly N more files under the path than
\* before the recovery, and the run is reported success = true.
C2_RecoveryAddsExactlyN ==
    /\ [][(/\ pc = "hmf_extract"
           /\ L'.success
           /\ Failures' = 0
           /\ L.source_file_count = FileCount(srcFiles, path)
           /\ L.target_file_count = FileCount(tgtFiles, path)
           /\ Cardinality(recoveryMembers) = L.missing_files)
            => FileCount(tgtFiles', path)
                  = FileCount(tgtFiles, path) + L.missing_files]_vars
    /\ [](Done /\ L.success => report.success)

\* C3: a run on a non-empty source directory that reports success = true
\* leaves as many files under the path on the target as on the source
\* (no remote command failed, and the target holds nothing under the path
\* that the source lacks).
C3_SuccessMeansEqualCounts ==
    (/\ Done
     /\ report.success
     /\ Failures = 0
     /\ FileCount(srcFiles, path) > 0
     /\ RelSet(tgtFiles, path) \subseteq RelSet(srcFiles, path))
        => FileCount(tgtFiles, path) = FileCount(srcFiles, path)

\* C4: when a step fails fatally after the primary archive was created,
\* the removal of the primary archive is still attempted before the failed
\* report is returned.
C4_CleanupRunsAfterFatalFailure ==
    (/\ Done
     /\ ~report.success
     /\ cleanup_temp_files
     /\ Succeeded("source", "tar"))
        => Issued("source", "rm_archive")

\* the target-side counts of the last verification pass that ran; the
\* target's files do not change after the re-verification
LastVerifiedTarget ==
    IF Issued("target", "reverify_files")
      THEN verify_directory_counts(tgtFiles, path,
               IF Succeeded("target", "reverify_files") THEN 0 ELSE 1,
               IF Succeeded("target", "reverify_dirs") THEN 0 ELSE 1)
      ELSE <<L.target_file_count, L.target_dir_count>>

\* C5: in every returned report of a run that verified (and in which no
\* remote command failed), file_count and directory_count are the
\* target-side counts of the last verification pass that ran, the
\* re-verification after a recovery included.
C5_ReportCarriesLastTargetCounts ==
    (Done /\ Issued("target", "verify_files") /\ Failures = 0)
        => /\ report.file_count = LastVerifiedTarget[1]
           /\ report.directory_count = LastVerifiedTarget[2]

\* C6: once the primary retrieval has returned a non-zero exit code, no
\* extraction, verification or recovery command is ever issued in the run,
\* and the run ends with success = false.
C6_RetrievalFailureAborts ==
    Failed("target", "wget")
        => /\ ~Issued("target", "extract")
           /\ ~Issued("source", "verify_files")
           /\ ~Issued("target", "verify_files")
           /\ ~RecoveryEntered
           /\ pc \in {"except", "except_complete", "finally", "return", "done"}
           /\ (Done => report.success = FALSE)

C6_Witness == Done /\ Failed("target", "wget") /\ ~report.success

C8_CleanupFailureKeepsSuccess ==
    (/\ Done
     /\ \/ Failed("target", "rm_archive")
        \/ Failed("source", "rm_archive")
        \/ Failed("source", "recovery_rm")
        \/ Failed("target", "recovery_rm"))
        => report.success /\ report.errors = <<>>

C8_Witness == Done /\ Failed("source", "rm_archive") /\ report.success

\* C9: every run ends by returning the report and no exception leaves the
\* function: each position before the return has a next step, the returned
\* report has end_time set, and the exception that ended the try block is
\* in report.errors.
C9_AlwaysReturnsReport ==
    /\ pc # "raised"
    /\ ~Done => ENABLED Next
    /\ Done => /\ report.end_time # None
               /\ L.exc # "" => HasError("SSH transfer failed: " \o L.exc)
               /\ L.exc # "" => ~report.success

C9_Witness ==
    /\ Done
    /\ conn.target_ssh = "none"
    /\ report.errors =
         <<"SSH transfer failed: Failed to establish SSH connections">>

\* C10: complete is called exactly once per run and is the last mutation of
\* the report: once end_time is set no field of the report changes again.
C10_CompleteOnceAndLast ==
    /\ [][report.end_time # None => report' = report]_vars
    /\ [](completeCalls <= 1)
    /\ [](pc \in {"finally", "return", "done"} => completeCalls = 1)

C10_Witness == Done /\ completeCalls = 1 /\ report.end_time # None

\* the step of the pipeline a remote command belongs to: 1 probe, 2 archive,
\* 3 retrieve, 4 extract, 5 verify, 6 recover, 7 re-verify, 8 cleanup
StepOf(c) ==
    CASE c[2] \in {"du", "count_files", "count_dirs"} -> 1
      [] c[2] \in {"tar", "ls_parent", "ls_archive"} -> 2
      [] c[2] \in {"pwd", "mkdir_tmp"} -> IF c[1] = "source" THEN 2 ELSE 3
      [] c[2] = "wget" -> 3
      [] c[2] \in {"mkdir_parent", "extract"} -> 4
      [] c[2] \in {"verify_files", "verify_dirs"} -> 5
      [] c[2] \in {"list_files", "write_list", "recovery_tar",
                   "recovery_wget", "recovery_extract", "recovery_rm"} -> 6
      [] c[2] \in {"reverify_files", "reverify_dirs"} -> 7
      [] c[2] = "rm_archive" -> 8

\* C11: the commands of one run follow the order probe, archive, retrieve,
\* extract, verify, recover, re-verify, cleanup; each primary command is
\* issued at most once; and a step starts only after the steps before it
\* went through: no retrieval without an archive that tar made and ls
\* found, no extraction without a successful retrieval, no verification
\* without a successful extraction, no recovery or cleanup without a
\* verification.
C11_StepsInOrder ==
    /\ \A i \in DOMAIN cmds, j \in DOMAIN cmds :
          i < j => StepOf(cmds[i]) <= StepOf(cmds[j])
    /\ Times("source", "du") <= 1
    /\ Times("source", "tar") <= 1
    /\ Times("source", "ls_archive") <= 1
    /\ Times("target", "wget") <= 1
    /\ Times("target", "extract") <= 1
    /\ Times("source", "verify_files") <= 1
    /\ Times("target", "verify_files") <= 1
    /\ Times("target", "rm_archive") <= 1
    /\ Times("source", "rm_archive") <= 1
    /\ Issued("source", "tar") => Issued("source", "count_dirs")
    /\ Issued("target", "wget")
          => Succeeded("source", "tar") /\ Succeeded("source", "ls_archive")
    /\ Issued("target", "extract") => Succeeded("target", "wget")
    /\ Issued("source", "verify_files") => Succeeded("target", "extract")
    /\ RecoveryEntered => Issued("target", "verify_dirs")
    /\ Issued("target", "reverify_files") => RecoveryEntered
    /\ (Issued("target", "rm_archive") \/ Issued("source", "rm_archive"))
          => Issued("target", "verify_dirs")

C11_Witness ==
    /\ Done
    /\ Succeeded("target", "reverify_files")
    /\ Issued("source", "rm_archive")

\* the commands of handle_missing_files
RecoveryCmds ==
    {"list_files", "write_list", "recovery_tar", "recovery_wget",
     "recovery_extract", "recovery_rm"}

\* some command of handle_missing_files has been issued
AnyRecoveryCmd == \E i \in DOMAIN cmds : cmds[i][2] \in RecoveryCmds

\* C12: the first command of the recovery is issued only from the state in
\* which the verification has measured fewer files on the target than on
\* the source; when the verification measures equal counts or a surplus
\* the run goes on without any recovery command.
C12_RecoveryOnlyOnDeficit ==
    /\ [][(AnyRecoveryCmd' /\ ~AnyRecoveryCmd)
            => /\ Issued("target", "verify_files")
               /\ L.target_file_count < L.source_file_count]_vars
    /\ [][(pc = "verify_tgt"
             /\ L'.target_file_count >= L'.source_file_count)
            => pc' = "update_report"]_vars
    /\ [](AnyRecoveryCmd
            => /\ Issued("target", "verify_files")
               /\ L.missing_files > 0)

C12_Witness ==
    /\ Done
    /\ AnyRecoveryCmd
    /\ Succeeded("source", "verify_files")
    /\ Succeeded("target", "verify_files")
    /\ L.missing_files > 0

\* the verification found more files on the target than on the source
SurplusMeasured ==
    /\ Issued("target", "verify_files")
    /\ ~RecoveryEntered
    /\ pc # "verify_tgt"
    /\ L.target_file_count > L.source_file_count

\* C13: a surplus of files on the target adds no error to the report,
\* starts no recovery, is followed by the cleanup, and the run ends with
\* success = true.
C13_SurplusIsOnlyAWarning ==
    SurplusMeasured
      => /\ report.errors = <<>>
         /\ L.exc = ""
         /\ ~AnyRecoveryCmd
         /\ pc \in {"update_report", "cleanup_tgt", "cleanup_src",
                    "set_transferred", "complete", "finally", "return",
                    "done"}
         /\ Done => /\ report.success
                    /\ cleanup_temp_files => /\ Issued("target", "rm_archive")
                                              /\ Issued("source", "rm_archive")

C13_Witness ==
    /\ Done
    /\ SurplusMeasured
    /\ Succeeded("source", "verify_files")
    /\ Succeeded("target", "verify_files")
    /\ Issued("source", "rm_archive")

\* C14: when the run returns no remote session is left open: every session
\* that was opened has been closed, also when only one of the two could
\* be opened, and a session is closed nowhere but in the finally block.
C14_SessionsClosedOnReturn ==
    /\ pc \in {"return", "done"}
          => \A h \in DOMAIN conn : conn[h] # "open"
    /\ \A h \in DOMAIN conn :
          conn[h] = "closed" => pc \in {"return", "done"} /\ connects[h] > 0

C14_Witness ==
    /\ Done
    /\ conn.source_ssh = "closed"
    /\ conn.target_ssh = "none"

\* one of the two connections could not be opened
ConnectionFailed ==
    /\ pc # "connect"
    /\ \E h \in DOMAIN conn : conn[h] = "none"

\* C15: when the source or the target connection cannot be opened the run
\* fails with nothing done: no remote command is issued on either host,
\* no file or staging entry changes, and the returned report has
\* success = false and the connection error as its only error.
C15_ConnectionFailureChangesNothing ==
    /\ [](ConnectionFailed
            => /\ cmds = <<>>
               /\ srcStage = {} /\ tgtStage = {}
               /\ report.transferred_size_bytes = 0
               /\ report.file_count = 0)
    /\ [][ConnectionFailed' => UNCHANGED hosts]_vars
    /\ [](ConnectionFailed /\ Done
            => /\ ~report.success
               /\ report.errors =
                    <<"SSH transfer failed: Failed to establish SSH connections">>)

C15_Witness ==
    /\ Done
    /\ conn.source_ssh = "none"
    /\ conn.target_ssh = "closed"
    /\ ~report.success

\* C16: a connection is given up, and the failure handed to the run, only
\* after ssh.connect has been tried three times for that host.
C16_ConnectionGivenUpAfterThreeAttempts ==
    \A h \in DOMAIN conn :
        (pc # "connect" /\ conn[h] = "none") => connects[h] = 3

\* C17: create_ftp_connection calls connect at most three times; it
\* returns the connection at the first attempt that goes through and does
\* nothing after; it has slept once after each failed attempt but the
\* last, 2 s then 4 s, so k failures and a success are k + 1 connects and
\* k sleeps; after the third failure it re-raises with no third sleep.
C17_FtpConnectThreeAttempts ==
    aux.fn = "create_ftp_connection"
      => /\ aux.connects <= 3
         /\ aux.sleeps = SubSeq(<<2, 4>>, 1, aux.attempt)
         /\ aux.pc = "try" => aux.connects = aux.attempt
         /\ aux.pc = "returned"
               => /\ aux.e = "" /\ aux.result = "ftp"
                  /\ aux.connects = aux.attempt + 1
                  /\ aux.logins >= 1
                  /\ Len(aux.sleeps) = aux.connects - 1
                  /\ ~ENABLED FtpNext
         /\ aux.pc = "raised"
               => /\ aux.e # "" /\ aux.result = "none"
                  /\ aux.connects = 3
                  /\ aux.sleeps = <<2, 4>>
                  /\ ~ENABLED FtpNext

C17_Witness ==
    /\ aux.fn = "create_ftp_connection"
    /\ aux.pc = "returned"
    /\ aux.connects = 3
    /\ aux.sleeps = <<2, 4>>

\* C18: execute_ssh_command never lets an exception out and always comes
\* to return a triple (exit code, stdout, stderr): the command's exit
\* status, zero or not, with its decoded output when no call raised, and
\* (-1, empty stdout, text of the exception) when one did, which a caller
\* testing exit_code = 0 sees as a failed command.
C18_ExecuteNeverRaises ==
    aux.fn = "execute_ssh_command"
      => /\ aux.pc # "raised"
         /\ aux.pc # "returned" => ENABLED ExecNext
         /\ aux.pc = "returned"
               => /\ Len(aux.result) = 3
                  /\ aux.result[1] \in Int
                  /\ ~aux.raised
                       => aux.result
                            = <<aux.status, Decode(aux.out), Decode(aux.err)>>
                  /\ aux.raised
                       => aux.result = <<-1, <<>>, aux.e>> /\ aux.result[1] # 0

C18_Witness ==
    /\ aux.fn = "execute_ssh_command"
    /\ aux.pc = "returned"
    /\ aux.raised
    /\ aux.exit_code = 0
    /\ aux.result = <<-1, <<>>, <<"SSH session not active">>>>

\* C19: get_directory_size_ssh hands back the three numbers whatever its
\* commands do: each of size, file count and directory count is the
\* measured value when its own command went through and 0 when it did
\* not, whatever the other two did; and the run goes on to the archiving
\* step after the probe with no exception raised.
C19_ProbeDegradesPerField ==
    /\ [](Issued("source", "count_dirs")
            => /\ L.total_size = IF Succeeded("source", "du")
                                   THEN DuSize(srcFiles, path) ELSE 0
               /\ L.file_count = IF Succeeded("source", "count_files")
                                   THEN FileCount(srcFiles, path) ELSE 0
               /\ L.dir_count = IF Succeeded("source", "count_dirs")
                                  THEN DirCount(srcFiles, path) ELSE 0)
    /\ [][pc = "probe" => pc' = "mkdir_src" /\ L'.exc = ""]_vars

C19_Witness ==
    /\ Done
    /\ report.success
    /\ Failed("source", "count_files")
    /\ L.file_count = 0
    /\ L.total_size > 0
    /\ L.dir_count > 0

\* the archive was not made: tar came back non-zero, or ls did not find it
ArchiveFailed == Failed("source", "tar") \/ Failed("source", "ls_archive")

\* C20: when tar exits non-zero, or exits zero and the archive is not
\* found, the run is aborted and reported failed: tar has been issued
\* once, nothing is issued on the target, and no retrieval, extraction,
\* verification, recovery or cleanup command follows.
C20_ArchiveFailureAborts ==
    ArchiveFailed
      => /\ Times("source", "tar") = 1
         /\ pc \in {"except", "except_complete", "finally", "return", "done"}
         /\ \A i \in DOMAIN cmds : /\ cmds[i][1] = "source"
                                    /\ StepOf(cmds[i]) <= 2
         /\ tgtStage = {}
         /\ Done => /\ ~report.success
                    /\ Len(report.errors) = 1

C20_Witness ==
    /\ Done
    /\ Succeeded("source", "tar")
    /\ Failed("source", "ls_archive")
    /\ ~report.success

\* a line of the shape percentage, bracketed bar, size, rate
ProgressShaped(line) == MatchAt(line) # {}

\* C21: when the retrieval fails, neither the text put in report.errors
\* nor the logged warning holds a line that looks like a progress line.
C21_ErrorTextWithoutProgressLines ==
    aux.fn = "execute_ssh_command_with_progress"
      => /\ \A i \in DOMAIN aux.warning : ~ProgressShaped(aux.warning[i])
         /\ aux.pc = "failed"
               => \A i \in DOMAIN aux.error : ~ProgressShaped(aux.error[i])

\* the samples of the lines read in the loop that the parser matches
MatchedSamples(lines) ==
    LET m == SelectSeq(lines, LAMBDA l : parse_progress(l) # NoSample)
    IN [i \in 1..Len(m) |-> parse_progress(m[i])]

\* C22: during one retrieval the first progress line is logged no earlier
\* than 5 s after the command started, two consecutive logged lines are
\* at least 5 s apart, and every matched sample is printed to the console
\* whether it is logged or not.
C22_ProgressLoggedEveryFiveSeconds ==
    aux.fn = "execute_ssh_command_with_progress"
      => /\ \A i \in DOMAIN aux.logged : aux.logged[i][1] >= LogInterval
         /\ \A i \in DOMAIN aux.logged, j \in DOMAIN aux.logged :
               i < j => aux.logged[j][1] - aux.logged[i][1] >= LogInterval
         /\ aux.rendered = MatchedSamples(aux.polled)
         /\ \A i \in DOMAIN aux.logged :
               \E k \in DOMAIN aux.rendered :
                  aux.rendered[k] = aux.logged[i][2]

C22_Witness ==
    /\ aux.fn = "execute_ssh_command_with_progress"
    /\ Len(aux.rendered) = 2
    /\ Len(aux.logged) = 1
    /\ aux.logged[1][1] = LogInterval
    /\ aux.pc = "returned"

\* the progress-shaped lines among those read in the loop
ShapedLines(lines) == SelectSeq(lines, ProgressShaped)

\* C23: every line of the shape percentage, bar, size, rate, optional eta
\* read during the download gives a sample with exactly the percentage,
\* the size token, the rate token and the eta token of that line; the
\* line '... 45%[===>] 12.3M 892KB/s eta 15s' gives 45, 12.3M, 892KB/s, 15s.
C23_ProgressLinesParsed ==
    aux.fn = "execute_ssh_command_with_progress"
      => LET shaped == ShapedLines(aux.polled)
         IN /\ Len(aux.rendered) = Len(shaped)
            /\ \A k \in DOMAIN shaped :
                  LET line == shaped[k]
                      s == aux.rendered[k]
                      i == CHOOSE n \in MatchAt(line) : TRUE
                  IN /\ s.percent = line[i]
                     /\ s.size = line[i + 5]
                     /\ s.speed = line[i + 6]
                     /\ i + 8 <= Len(line)
                           => s.eta[Len(s.eta)] = line[i + 8]

\* a KeyboardInterrupt has ended the try block
Interrupted == L.exc = "KeyboardInterrupt"

\* C24: after an external interrupt no further command is issued on
\* either host, the artifacts the run made in ~/tmp_trans are removed
\* before control is back with the caller, and no interrupt is dropped
\* with the pipeline going on.
C24_InterruptStopsAndCleansUp ==
    /\ [][Interrupted => cmds' = cmds]_vars
    /\ [](L.dropped_interrupts = 0)
    /\ [](pc = "interrupted" /\ cleanup_temp_files
            => /\ srcStage \cap {"primary", "recovery", "list"} = {}
               /\ tgtStage \cap {"primary", "recovery"} = {})

\* C25: two runs at once never use the same remote file: their archive
\* names, recovery archive names and list names differ, a run retrieves
\* the archive it made itself, and its archive is still there when it
\* comes to retrieve it.
C25_RunsShareNoArtifact ==
    aux.fn = "transfer_directory_ssh x 2"
      => /\ \A r \in Runs, q \in Runs :
               r # q
                 => /\ aux.archive[r] # <<>> => aux.archive[r] # aux.archive[q]
                    /\ aux.recovery[r] # <<>>
                          => aux.recovery[r] # aux.recovery[q]
                    /\ aux.list[r] # <<>> => aux.list[r] # aux.list[q]
         /\ \A r \in Runs :
               /\ aux.fetched[r] \in {0, r}
               /\ aux.pc[r] = "wget"
                     => \E f \in aux.src_tmp : f = <<aux.archive[r], r>>

\* the attempts of the call so far that raised
Raises(outcomes) == SelectSeq(outcomes, LAMBDA o : o = "raise")

\* C26: download_ftp_file_with_retry and upload_ftp_file_with_retry with
\* max_retries = n make at most n attempts and never raise; when every
\* attempt either raises or succeeds, k raising attempts followed by a
\* success return True after exactly k sleeps of 2, 4, ... seconds with
\* no attempt after the success, and n raising attempts return False
\* after exactly n - 1 sleeps.
C26_TransferRetriesBounded ==
    aux.fn \in RetryFunctions
      => /\ Len(aux.outcomes) <= aux.max_retries
         /\ aux.pc # "raised"
         /\ aux.pc # "returned" => ENABLED RetryNext
         /\ aux.pc = "returned"
               => aux.result \in {"True", "False"} /\ ~ENABLED RetryNext
         /\ (\A i \in DOMAIN aux.outcomes : aux.outcomes[i] # "mismatch")
               => /\ aux.sleeps = [i \in 1..Len(aux.sleeps) |-> 2 ^ i]
                  /\ aux.result = "True"
                        => /\ aux.outcomes[Len(aux.outcomes)] = "ok"
                           /\ Len(Raises(aux.outcomes)) = Len(aux.outcomes) - 1
                           /\ Len(aux.sleeps) = Len(Raises(aux.outcomes))
                  /\ (aux.result = "False" /\ aux.max_retries > 0)
                        => /\ Len(Raises(aux.outcomes)) = aux.max_retries
                           /\ Len(aux.sleeps) = aux.max_retries - 1

C26_Witness ==
    /\ aux.fn = "download_ftp_file_with_retry"
    /\ aux.pc = "returned"
    /\ aux.result = "True"
    /\ aux.outcomes = <<"raise", "raise", "ok">>
    /\ aux.sleeps = <<2, 4>>

\* the calls of one method among the calls made on the report
CallsOf(calls, method) == SelectSeq(calls, LAMBDA c : c[1] = method)

\* C27: a new report has success = false, no end_time, zero counts and no
\* errors; end_time is unset exactly as long as complete has not been
\* called; success is the argument of the last complete; errors holds the
\* messages of the add_error calls, one entry each, in the order of the
\* calls, and add_error touches neither success nor end_time.
C27_ReportLifecycle ==
    aux.fn = "TransferReport"
      => LET adds == CallsOf(aux.calls, "add_error")
             completes == CallsOf(aux.calls, "complete")
         IN /\ aux.calls = <<>>
                  => /\ aux.report.success = FALSE
                     /\ aux.report.end_time = None
                     /\ aux.report.errors = <<>>
                     /\ aux.report.file_count = 0
                     /\ aux.report.directory_count = 0
                     /\ aux.report.total_size_bytes = 0
                     /\ aux.report.transferred_size_bytes = 0
            /\ aux.report.end_time = None <=> completes = <<>>
            /\ completes = <<>> => aux.report.success = FALSE
            /\ completes # <<>>
                  => aux.report.success = completes[Len(completes)][2]
            /\ aux.report.errors = [i \in 1..Len(adds) |-> adds[i][2]]

C27_Witness ==
    /\ aux.fn = "TransferReport"
    /\ aux.calls = <<<<"add_error", "first error">>, <<"complete", FALSE>>,
                     <<"add_error", "second error">>>>
    /\ aux.report.errors = <<"first error", "second error">>

\* the primary archive has been extracted on the target
Extracted == Succeeded("target", "extract")

\* C28: once the primary archive is extracted, every file at
\* source_home/path/r is at target_home/path/r.
C28_EverySourceFileInPlace ==
    Extracted => \A r \in RelSet(srcFiles, path) : path \o r \in tgtFiles

\* C28 as the code has it: the members of the archive start with the last
\* segment of the path alone; the extraction puts every source file r
\* below the path that tar's --exclude-backups does not leave out at
\* target_home/path/r, and adds no file anywhere else.
C28_ArchivedFilesInPlace ==
    /\ [](\A m \in primaryMembers :
            /\ m[1] = path[Len(path)]
            /\ Tail(m) \in RelSet(srcFiles, path))
    /\ [](Extracted
            => \A r \in RelSet(srcFiles, path) :
                  r[Len(r)] # BackupName => path \o r \in tgtFiles)
    /\ [][(pc = "extract" /\ pc' = "verify_src")
            => tgtFiles' \ tgtFiles
                 \subseteq {path \o r : r \in RelSet(srcFiles, path)}]_vars

C28_Witness ==
    /\ Extracted
    /\ Len(path) = 2
    /\ primaryMembers # {}
    /\ \A m \in primaryMembers : ParentOf(path) \o m \in tgtFiles

\* the relative paths of the files below the path on the source that are
\* not below the path on the target
MissingNow == RelSet(srcFiles, path) \ RelSet(tgtFiles, path)

\* C29: the missing-file set handle_missing_files computes is the source
\* listing minus the target listing, and the recovery archive holds
\* exactly that set: nothing that is on the target already and nothing
\* that is not on the source; with an empty difference nothing is built.
C29_MissingSetIsTheDifference ==
    /\ [][(pc = "hmf_list_tgt" /\ cmds'[Len(cmds')][3])
            => /\ L'.missing_file_set = MissingNow
               /\ pc' = IF MissingNow = {} THEN "update_report"
                                           ELSE "hmf_write_list"]_vars
    /\ [][(pc = "hmf_tar" /\ pc' = "hmf_wget")
            => recoveryMembers' = MissingNow /\ MissingNow # {}]_vars
    /\ [](recoveryMembers \subseteq RelSet(srcFiles, path))
    /\ [](Issued("source", "recovery_tar") => L.missing_file_set # {})

C29_Witness ==
    /\ Succeeded("source", "recovery_tar")
    /\ recoveryMembers # {}
    /\ recoveryMembers # L.source_file_set
    /\ recoveryMembers = L.missing_file_set

\* C30: the recovery download goes to the source host with the user and
\* password of the primary download, and the recovery extraction puts
\* each missing relative path r at target_home/path/r, where the primary
\* extraction puts the files of the path.
C30_RecoveryLikePrimary ==
    /\ Issued("target", "recovery_wget") => recovery_ftp_url = source_ftp_url
    /\ (Succeeded("target", "recovery_extract") /\ pc = "hmf_cleanup_src")
          => \A r \in recoveryMembers : path \o r \in tgtFiles

\* the commands of archiving, retrieving, extracting and verifying that
\* came back with a non-zero exit code or a timeout
FailedPrimaryCmds ==
    {i \in DOMAIN cmds : StepOf(cmds[i]) \in 2..5 /\ ~cmds[i][3]}

\* C31: a remote command of archiving, retrieving, extracting or verifying
\* that times out or exits non-zero (mkdir of the staging directory, pwd,
\* mkdir of the destination parent and the verifier's counting commands
\* included) is the last command of its step and the run is reported
\* failed: no later command of the pipeline is issued after it.
C31_FailedCommandAbortsRun ==
    /\ \A i \in FailedPrimaryCmds : i = Len(cmds)
    /\ (Done /\ FailedPrimaryCmds # {}) => ~report.success

\* C32: an iteration of the polling loop sleeps the fixed interval after
\* its read attempts, and the loop never keeps the exit status from being
\* read: whenever the command has ended the function can return, and what
\* it returns is the command's own exit code with the whole of what the
\* command wrote to stdout and to stderr, in order, however the reads
\* timed out and however the output was cut into chunks.
C32_PollingReturnsWholeOutput ==
    aux.fn = "execute_ssh_command_with_progress"
      => /\ aux.pc = "poll" => ENABLED ProgFinish
         /\ aux.pc = "poll" => aux.now >= aux.polls * PollSleep
         /\ (aux.pc = "returned" /\ ~aux.raised)
               => aux.result = <<aux.status, DecodeUtf8(aux.out), aux.err>>

\* C33: the archive file name in the pack command, the existence check,
\* the retrieval URL, the extraction command and the two cleanup commands
\* is one and the same name, and it has no whitespace character and no
\* backslash in it, whatever the path is.
C33_ArchiveNameShellSafe ==
    aux.fn = "safe_archive_name"
      => \A i \in DOMAIN aux.used :
            /\ aux.used[i][2] = aux.used[1][2]
            /\ \A k \in DOMAIN aux.used[i][2] :
                  aux.used[i][2][k] \notin Whitespace \cup {"\\"}

\* positions inside handle_missing_files after the missing-file list has
\* been written
AfterWriteList ==
    {"hmf_tar", "hmf_wget", "hmf_extract", "hmf_cleanup_src",
     "hmf_cleanup_tgt"}

\* C34: once handle_missing_files has written the missing-file list, it
\* does not return before it has issued the rm of the recovery archive
\* and the list on the source and the rm of the recovery archive on the
\* target, whether the recovery tar failed, the download failed, the
\* extraction failed or all three went through; the two rm commands are
\* the last commands of the recovery.
C34_RecoveryArtifactsRemoved ==
    /\ []((Issued("source", "write_list") /\ pc \notin AfterWriteList)
            => /\ Issued("source", "recovery_rm")
               /\ Issued("target", "recovery_rm"))
    /\ [][(pc \in AfterWriteList /\ pc' \notin AfterWriteList)
            => /\ Len(cmds') >= 2
               /\ cmds'[Len(cmds')][1] = "target"
               /\ cmds'[Len(cmds')][2] = "recovery_rm"
               /\ cmds'[Len(cmds') - 1][1] = "source"
               /\ cmds'[Len(cmds') - 1][2] = "recovery_rm"]_vars

C34_Witness ==
    /\ Failed("target", "recovery_wget")
    /\ Issued("source", "recovery_rm")
    /\ Issued("target", "recovery_rm")
    /\ pc = "update_report"

\* C35: in the report transfer_directory_ssh returns, success is false
\* exactly when the errors list is not empty, and transferred_size_bytes
\* is other than 0 only in a report with success = true.
C35_SuccessIffNoErrors ==
    pc \in {"return", "done"}
      => /\ ~report.success <=> report.errors # <<>>
         /\ report.transferred_size_bytes # 0 => report.success

C35_Witness ==
    /\ Done
    /\ ~report.success
    /\ Len(report.errors) = 1
    /\ report.total_size_bytes > 0
    /\ report.transferred_size_bytes = 0

\* C36: in a run that is reported successful, every relative path of a
\* file below the path on the source is the relative path of a file below
\* the path on the target; equal file counts and a surplus on the target
\* included.
C36_SuccessMeansEveryPathPresent ==
    (Done /\ report.success)
      => RelSet(srcFiles, path) \subseteq RelSet(tgtFiles, path)

\* C37: in a run with cleanup_temp_files = false every temporary file the
\* run has made is still where it was made: the primary archive on the
\* source and on the target, the missing-file list and the recovery
\* archive on the source, and the recovery archive on the target.
C37_NoCleanupRemovesNothing ==
    ~cleanup_temp_files
      => /\ Succeeded("source", "tar") => "primary" \in srcStage
         /\ Succeeded("target", "wget") => "primary" \in tgtStage
         /\ Succeeded("source", "write_list") => "list" \in srcStage
         /\ Succeeded("source", "recovery_tar") => "recovery" \in srcStage
         /\ Succeeded("target", "recovery_wget") => "recovery" \in tgtStage

\* C38: download_ftp_file_with_retry returns True only from an attempt
\* that raised nothing and left a local file of the size the server gave
\* (or the server gave no size or 0); an attempt that ends with another
\* size takes one of the max_retries attempts, sleeps nothing, returns
\* nothing and leaves the loop to go on; and when each of the max_retries
\* attempts ends with another size the function returns False.
C38_SizeMismatchRetried ==
    /\ []((aux.fn = "download_ftp_file_with_retry" /\ aux.result = "True")
            => /\ aux.outcomes[Len(aux.outcomes)] = "ok"
               /\ aux.file_size = 0 \/ aux.downloaded_size = aux.file_size)
    /\ [][(/\ aux.fn = "download_ftp_file_with_retry"
           /\ aux.pc = "for"
           /\ Len(aux'.outcomes) > Len(aux.outcomes)
           /\ aux'.file_size # 0
           /\ aux'.downloaded_size # aux'.file_size
           /\ aux'.outcomes[Len(aux'.outcomes)] # "raise")
            => /\ aux'.outcomes[Len(aux'.outcomes)] = "mismatch"
               /\ aux'.attempt = aux.attempt + 1
               /\ aux'.pc = "for"
               /\ aux'.result = "none"
               /\ aux'.sleeps = aux.sleeps]_vars
    /\ []((/\ aux.fn = "download_ftp_file_with_retry"
           /\ aux.pc = "for"
           /\ aux.attempt < aux.max_retries)
            => ENABLED TransferAttempt)
    /\ []((/\ aux.fn = "download_ftp_file_with_retry"
           /\ aux.pc = "returned"
           /\ aux.max_retries > 0
           /\ \A i \in DOMAIN aux.outcomes : aux.outcomes[i] = "mismatch")
            => /\ aux.result = "False"
               /\ Len(aux.outcomes) = aux.max_retries)

C38_Witness ==
    /\ aux.fn = "download_ftp_file_with_retry"
    /\ aux.pc = "returned"
    /\ aux.result = "False"
    /\ aux.outcomes = <<"mismatch", "mismatch", "mismatch">>
    /\ aux.sleeps = <<>>

\* the sum of the sizes of the files of one chunk
RECURSIVE ChunkSize(_, _)
ChunkSize(files, local) ==
    IF files = <<>> THEN 0
    ELSE local[Head(files)] + ChunkSize(Tail(files), local)

\* the places of the file f in the chunks: chunk and position in it
PlacesOf(chunks, f) ==
    {p \in (DOMAIN chunks) \X (1..Cardinality(LocalFiles)) :
        p[2] \in DOMAIN chunks[p[1]][2] /\ chunks[p[1]][2][p[2]] = f}

\* C39: the chunks transfer_in_chunks_ftp builds are a partition of the
\* local files: each file is at one place in one chunk, each chunk holds
\* local files only and at least one, the chunks are numbered 0, 1, 2,
\* ... in their order, and a chunk of more than one file has a total
\* size of at most max_chunk_size.
C39_ChunksPartitionFiles ==
    (aux.fn = "transfer_in_chunks_ftp" /\ aux.pc \in {"process", "returned"})
      => /\ \A f \in DOMAIN aux.local :
               Cardinality(PlacesOf(aux.chunks, f)) = 1
         /\ \A c \in DOMAIN aux.chunks :
               /\ aux.chunks[c][1] = c - 1
               /\ aux.chunks[c][2] # <<>>
               /\ \A j \in DOMAIN aux.chunks[c][2] :
                     aux.chunks[c][2][j] \in DOMAIN aux.local
               /\ Len(aux.chunks[c][2]) > 1
                     => ChunkSize(aux.chunks[c][2], aux.local)
                           <= aux.max_chunk_size

C39_Witness ==
    /\ aux.fn = "transfer_in_chunks_ftp"
    /\ aux.pc = "returned"
    /\ aux.result = "True"
    /\ Len(aux.chunks) = 2
    /\ Len(aux.chunks[1][2]) = 1
    /\ ChunkSize(aux.chunks[1][2], aux.local) > aux.max_chunk_size
    /\ Len(aux.chunks[2][2]) = 2
    /\ aux.uploaded = <<0, 1>>

====
